---------------------------- MODULE Spec2Model ----------------------------
(***************************************************************************)
(* A model of the Stacks p2p wire codec (src/src/net/codec.rs): the        *)
(* preamble and envelope encodings, StacksMessage signing, relaying and    *)
(* verification, and the decoders' validations; and of the                *)
(* AttachmentsInvRequest of src/src/net/atlas/mod.rs.                      *)
(*                                                                         *)
(* Bytes are the integers 0..255 and every encoding is a sequence of       *)
(* bytes, laid out as the code writes it.  Integers are big-endian and     *)
(* keep their width in bytes; the values drawn stay below 2^31.            *)
(*                                                                         *)
(* The cryptographic primitives are external to the codec.  SHA-512/256    *)
(* is stood in for by a polynomial hash and secp256k1 by a scheme whose    *)
(* signature holds the digest and the key; what the codec decides (which   *)
(* bytes are hashed, which key is used, what the preamble holds afterwards)*)
(* is modelled from the code.                                              *)
(***************************************************************************)
EXTENDS Integers, Sequences, FiniteSets, TLC

VARIABLES
    msg,         \* the StacksMessage: [preamble, relayers, payload]
    lastOp,      \* the operation that ran last
    res,         \* what it returned
    prev,        \* the message that operation was called on, as it was then
    arg,         \* the arguments of that operation
    signedKey,   \* the private key whose signing left msg as it is now
                 \* (0: msg was not signed, or has changed since)
    failures,    \* how often the private-key operation has failed
    sent,        \* the values a peer encoded: [preamble, relayers, payload]
    wire,        \* the bytes received
    decoded,     \* what the last decoder returned: [ok, err, val, pos]
    framed,      \* the preamble read_payload was last given
    bools,       \* the booleans handed to compress_bools
    invs,        \* the inventories built: [blocks, pox]
    asked,       \* the index the last has_ith_ call was given
    answer,      \* what that call returned: [panicked, val]
    request,     \* the AttachmentsInvRequest
    before,      \* the request and addedBy as they were when add_request
                 \* was last called: [self, addedBy]
    attachment,  \* the AttachmentInstance that call was given
    returned,    \* what that call returned
    addedBy,     \* for each key of request.missing_attachments, the
                 \* (consensus_hash, block_header_hash) of the attachment
                 \* whose call inserted the entry retained
    heights,     \* the block heights of the attachments accepted so far
    accepts,     \* the number of calls accepted so far
    calls,       \* the number of add_request calls so far
    hashed       \* the last two hashes taken: [mine, theirs, other]

msgVars == <<msg, prev, arg, signedKey, failures>>
wireVars == <<sent, wire, decoded, framed>>
bitVars == <<bools, invs, asked, answer>>
atlasVars == <<request, before, attachment, returned, addedBy, heights, accepts, calls, hashed>>
vars == <<msg, lastOp, res, prev, arg, signedKey, failures, sent, wire, decoded, framed, bools, invs, asked, answer, request, before, attachment, returned, addedBy, heights, accepts, calls, hashed>>

-----------------------------------------------------------------------------
(* Bounds of the model. *)

\* how often the private-key operation may fail in one behaviour
MaxSignFailures == 1

\* the longest vector of booleans handed to compress_bools
MaxBits == 9

\* add_request calls made on one request
MaxRequests == 3

(* Limits on the number of entries of a sequence, set in net/mod.rs and    *)
(* scaled down: MAX_NEIGHBORS_DATA_LEN, BLOCKS_AVAILABLE_MAX_LEN and       *)
(* BLOCKS_PUSHED_MAX.                                                      *)
MAX_NEIGHBORS_DATA_LEN == 2
BLOCKS_AVAILABLE_MAX_LEN == 2
BLOCKS_PUSHED_MAX == 3

\* the largest number of reward cycles a PoX inventory covers (net/mod.rs)
GETPOXINV_MAX_BITLEN == 8

(* Program constants.  They are set in crate::codec and util::secp256k1,   *)
(* outside the files modelled here.  MAX_RELAYERS_LEN is scaled down so    *)
(* that a relay chain can fill up.  PREAMBLE_ENCODED_SIZE is the length of *)
(* the byte vector that test codec_Preamble compares it with, and          *)
(* MESSAGE_SIGNATURE_ENCODED_SIZE the length of the signature in it.       *)
MAX_RELAYERS_LEN == 2
MAX_MESSAGE_LEN == 16778054
PREAMBLE_ENCODED_SIZE == 165
MESSAGE_SIGNATURE_ENCODED_SIZE == 65

-----------------------------------------------------------------------------
(* Primitive codec. *)

Byte == 0..255

\* n copies of the byte b: a fixed-size array filled like [b; n]
Rep(b, n) == [i \in 1..n |-> b]

\* the w big-endian bytes of the unsigned integer n
RECURSIVE BE(_, _)
BE(n, w) == IF w = 0 THEN <<>> ELSE BE(n \div 256, w - 1) \o <<n % 256>>

\* the unsigned integer a big-endian byte string holds
RECURSIVE FromBE(_)
FromBE(bs) ==
    IF bs = <<>> THEN 0
    ELSE FromBE(SubSeq(bs, 1, Len(bs) - 1)) * 256 + bs[Len(bs)]

\* the concatenation of a sequence of byte strings
RECURSIVE Concat(_)
Concat(ss) == IF ss = <<>> THEN <<>> ELSE Head(ss) \o Concat(Tail(ss))

-----------------------------------------------------------------------------
(* Keys, digests and signatures.  The primitives are external to the      *)
(* codec; small stand-ins with the same shapes take their place.           *)

PrivateKeys == {1, 2}

\* a private key with which the signing operation reports an error
FailingKeys == {3}

\* Secp256k1PublicKey::from_private
PublicKeyOf(sk) == sk

\* MessageSignature::empty(): 65 zero bytes
EmptySignature == Rep(0, MESSAGE_SIGNATURE_ENCODED_SIZE)

\* the i-th byte of bits as the stand-in hash reads it (0 past the end)
HashByte(bits, i) == IF i <= Len(bits) THEN bits[i] + 1 ELSE 0

\* the k-th block of eight bytes of bits, folded
HashBlock(bits, k) ==
    LET i == 8 * k - 7
    IN  HashByte(bits, i) + 3 * HashByte(bits, i + 1)
        + 7 * HashByte(bits, i + 2) + 13 * HashByte(bits, i + 3)
        + 29 * HashByte(bits, i + 4) + 61 * HashByte(bits, i + 5)
        + 127 * HashByte(bits, i + 6) + 251 * HashByte(bits, i + 7)

\* one lane of the stand-in hash: a tree hash of the blocks lo..hi of bits
\* with multiplier m modulo the prime p (p * p stays below 2^31)
RECURSIVE HashLane(_, _, _, _, _)
HashLane(bits, lo, hi, m, p) ==
    IF lo > hi THEN 1
    ELSE IF lo = hi THEN HashBlock(bits, lo) % p
    ELSE LET mid == (lo + hi) \div 2
             a   == HashLane(bits, lo, mid, m, p)
             b   == HashLane(bits, mid + 1, hi, m, p)
         IN  (((a * m) % p) + ((b * (m + 2)) % p) + (hi - lo)) % p

\* Sha512Trunc256 over the concatenated inputs: a 32-byte digest, two
\* lanes of sixteen bytes
Sha512Trunc256(bits) ==
    LET blocks == (Len(bits) + 7) \div 8
    IN  BE(HashLane(bits, 1, blocks, 31, 46337), 16) \o
        BE(HashLane(bits, 1, blocks, 4099, 46381), 16)

\* Secp256k1PrivateKey::sign: the 65 bytes of a recoverable signature of
\* digest under sk: a recovery id, then r and s
PrivSign(sk, digest) == <<0>> \o digest \o BE(sk, 32)

\* Secp256k1PublicKey::verify: sig is the signature of digest under the
\* private key of pubkey
PubVerify(pubkey, digest, sig) ==
    \E sk \in PrivateKeys :
        PublicKeyOf(sk) = pubkey /\ sig = PrivSign(sk, digest)

\* StacksPublicKeyBuffer::from_public_key: the 33 compressed bytes
from_public_key(pubkey) == <<2>> \o BE(pubkey, 32)

PublicKeys == {PublicKeyOf(sk) : sk \in PrivateKeys}

\* StacksPublicKeyBuffer::to_public_key: the key a buffer encodes, or 0 when
\* it encodes none (the caller then gets a DeserializeError)
to_public_key(buf) ==
    LET hits == {pk \in PublicKeys : from_public_key(pk) = buf}
    IN  IF hits = {} THEN 0 ELSE CHOOSE pk \in hits : TRUE

\* the buffers a caller may hand to verify_secp256k1: each key's, and one
\* that is no curve point
PublicKeyBuffers == {from_public_key(pk) : pk \in PublicKeys} \cup {Rep(0, 33)}

-----------------------------------------------------------------------------
(* Preamble. *)

\* Preamble::new
Preamble_new(peer_version, network_id, block_height, burn_block_hash, stable_block_height, stable_burn_block_hash, payload_len) ==
    [peer_version             |-> peer_version,
     network_id               |-> network_id,
     seq                      |-> 0,
     burn_block_height        |-> block_height,
     burn_block_hash          |-> burn_block_hash,
     burn_stable_block_height |-> stable_block_height,
     burn_stable_block_hash   |-> stable_burn_block_hash,
     additional_data          |-> 0,
     signature                |-> EmptySignature,
     payload_len              |-> payload_len]

\* a variant that leaves the sequence number out of the encoding
Preamble_serialize_no_seq(p) ==
    Concat(<<BE(p.peer_version, 4), BE(p.network_id, 4), BE(0, 4),
             BE(p.burn_block_height, 8), p.burn_block_hash,
             BE(p.burn_stable_block_height, 8), p.burn_stable_block_hash,
             BE(p.additional_data, 4), p.signature, BE(p.payload_len, 4)>>)

\* Preamble::consensus_serialize: the fields in declared order
Preamble_consensus_serialize(p) ==
    Concat(<<BE(p.peer_version, 4), BE(p.network_id, 4), BE(p.seq, 4),
             BE(p.burn_block_height, 8), p.burn_block_hash,
             BE(p.burn_stable_block_height, 8), p.burn_stable_block_hash,
             BE(p.additional_data, 4), p.signature, BE(p.payload_len, 4)>>)

\* a variant that serializes the preamble with the signature it holds
BlankSignature_keep(p) == p

\* `self.signature = MessageSignature::empty()` before serializing
BlankSignature(p) == [p EXCEPT !.signature = EmptySignature]

\* a variant that leaves the blank signature in place
RestoreSignature_forget(p, old_signature) == p

\* `self.signature = old_signature` after serializing
RestoreSignature(p, old_signature) == [p EXCEPT !.signature = old_signature]

\* Preamble::sign.  sign_fails: the private-key operation reports an error.
\* Returns the preamble as the call leaves it and the result.
Preamble_sign(p, message_bits, privkey, sign_fails) ==
    LET old_signature == p.signature
        blanked       == BlankSignature(p)
        preamble_bits == Preamble_consensus_serialize(blanked)
        restored      == RestoreSignature(blanked, old_signature)
        digest_bits   == Sha512Trunc256(preamble_bits \o message_bits)
        sig           == PrivSign(privkey, digest_bits)
    IN  IF sign_fails
        THEN [preamble |-> restored, res |-> "SigningError"]
        ELSE [preamble |-> [restored EXCEPT !.signature = sig], res |-> "Ok"]

\* Preamble::verify.  Returns the preamble as the call leaves it and the
\* result.
Preamble_verify(p, message_bits, pubkey) ==
    LET sig_bits      == p.signature
        blanked       == BlankSignature(p)
        preamble_bits == Preamble_consensus_serialize(blanked)
        restored      == RestoreSignature(blanked, sig_bits)
        digest_bits   == Sha512Trunc256(preamble_bits \o message_bits)
    IN  [preamble |-> restored,
         res      |-> IF PubVerify(pubkey, digest_bits, restored.signature)
                      THEN "Ok" ELSE "VerifyingError"]

-----------------------------------------------------------------------------
(* Relayers. *)

\* NeighborAddress::consensus_serialize
NeighborAddress_consensus_serialize(a) ==
    a.addrbytes \o BE(a.port, 2) \o a.public_key_hash

\* RelayData::consensus_serialize
RelayData_consensus_serialize(r) ==
    NeighborAddress_consensus_serialize(r.peer) \o BE(r.seq, 4)

\* Vec<RelayData>::consensus_serialize: a 32-bit count, then the entries
Relayers_consensus_serialize(rs) ==
    BE(Len(rs), 4) \o
    Concat([i \in 1..Len(rs) |-> RelayData_consensus_serialize(rs[i])])

-----------------------------------------------------------------------------
(* Inventory bit vectors. *)

\* BITVEC_LEN!(bitlen): the bytes a bit vector of bitlen bits takes
BITVEC_LEN(bitlen) == (bitlen \div 8) + (IF bitlen % 8 > 0 THEN 1 ELSE 0)

\* 1 << j
RECURSIVE Shl1(_)
Shl1(j) == IF j = 0 THEN 1 ELSE 2 * Shl1(j - 1)

\* the octet that ORs in 1 << j for each of the n bits from offset lo on
\* that is set
RECURSIVE Octet(_, _, _)
Octet(bits, lo, n) ==
    IF n = 0 THEN 0
    ELSE Octet(bits, lo, n - 1) + (IF bits[lo + n] THEN Shl1(n - 1) ELSE 0)

\* a variant that always pushes a last octet
compress_bools_padded(bits) ==
    [i \in 1..(Len(bits) \div 8) |-> Octet(bits, 8 * (i - 1), 8)] \o
    <<Octet(bits, (Len(bits) \div 8) * 8, Len(bits) % 8)>>

\* BlocksInvData::compress_bools: one octet for every eight bits, and a
\* last octet for the bits left over when there are any
compress_bools(bits) ==
    [i \in 1..(Len(bits) \div 8) |-> Octet(bits, 8 * (i - 1), 8)] \o
    (IF Len(bits) % 8 # 0
     THEN <<Octet(bits, (Len(bits) \div 8) * 8, Len(bits) % 8)>>
     ELSE <<>>)

\* a variant that reads the bits of an octet from the high end
IthBit_msb(bitvec, index) ==
    LET idx == index \div 8
        bit == index % 8
    IN  IF idx >= Len(bitvec) THEN [panicked |-> TRUE, val |-> FALSE]
        ELSE [panicked |-> FALSE,
              val |-> (bitvec[idx + 1] \div Shl1(7 - bit)) % 2 # 0]

\* (bitvec[idx as usize] & (1 << bit)) != 0 with idx = index / 8 and
\* bit = index % 8; indexing past the end of the vector panics
IthBit(bitvec, index) ==
    LET idx == index \div 8
        bit == index % 8
    IN  IF idx >= Len(bitvec) THEN [panicked |-> TRUE, val |-> FALSE]
        ELSE [panicked |-> FALSE,
              val |-> (bitvec[idx + 1] \div Shl1(bit)) % 2 # 0]

\* the answer false
NoBit == [panicked |-> FALSE, val |-> FALSE]

\* BlocksInvData::has_ith_block
has_ith_block(inv, block_index) ==
    IF block_index >= inv.bitlen THEN NoBit
    ELSE IthBit(inv.block_bitvec, block_index)

\* BlocksInvData::has_ith_microblock_stream
has_ith_microblock_stream(inv, block_index) ==
    IF block_index >= inv.bitlen THEN NoBit
    ELSE IthBit(inv.microblocks_bitvec, block_index)

\* PoxInvData::has_ith_reward_cycle
has_ith_reward_cycle(inv, index) ==
    IF index >= inv.bitlen THEN NoBit
    ELSE IthBit(inv.pox_bitvec, index)

\* BlocksInvData::empty
BlocksInvData_empty ==
    [bitlen |-> 0, block_bitvec |-> <<>>, microblocks_bitvec |-> <<>>]

-----------------------------------------------------------------------------
(* Payload bodies. *)

\* Vec<T>::consensus_serialize: a 32-bit count, then the items as Item
\* writes them
Vec_consensus_serialize(items, Item(_)) ==
    BE(Len(items), 4) \o Concat([i \in 1..Len(items) |-> Item(items[i])])

\* Vec<u8>::consensus_serialize: the count, then each byte as itself
ByteVec_consensus_serialize(bytes) == BE(Len(bytes), 4) \o bytes

\* UrlString: a length byte, then the bytes of the string
UrlString_consensus_serialize(url) == <<Len(url)>> \o url

\* StacksBlock, StacksMicroblock and StacksTransaction have codecs of
\* their own; a value of these types stands here as the bytes of its body,
\* written after a length byte
Opaque_consensus_serialize(body) == <<Len(body)>> \o body

\* HandshakeData::consensus_serialize
HandshakeData_consensus_serialize(h) ==
    Concat(<<h.addrbytes, BE(h.port, 2), BE(h.services, 2), h.node_public_key,
             BE(h.expire_block_height, 8),
             UrlString_consensus_serialize(h.data_url)>>)

\* HandshakeAcceptData::consensus_serialize
HandshakeAcceptData_consensus_serialize(m) ==
    HandshakeData_consensus_serialize(m.handshake) \o
    BE(m.heartbeat_interval, 4)

\* NeighborsData::consensus_serialize
NeighborsData_consensus_serialize(m) ==
    Vec_consensus_serialize(m.neighbors, NeighborAddress_consensus_serialize)

\* GetPoxInv::consensus_serialize
GetPoxInv_consensus_serialize(m) == m.consensus_hash \o BE(m.num_cycles, 2)

\* PoxInvData::consensus_serialize
PoxInvData_consensus_serialize(m) ==
    BE(m.bitlen, 2) \o
    ByteVec_consensus_serialize(m.pox_bitvec)

\* GetBlocksInv::consensus_serialize
GetBlocksInv_consensus_serialize(m) == m.consensus_hash \o BE(m.num_blocks, 2)

\* BlocksInvData::consensus_serialize
BlocksInvData_consensus_serialize(m) ==
    Concat(<<BE(m.bitlen, 2),
             ByteVec_consensus_serialize(m.block_bitvec),
             ByteVec_consensus_serialize(m.microblocks_bitvec)>>)

\* (ConsensusHash, BurnchainHeaderHash)::consensus_serialize
Available_consensus_serialize(e) == e[1] \o e[2]

\* BlocksAvailableData::consensus_serialize
BlocksAvailableData_consensus_serialize(m) ==
    Vec_consensus_serialize(m.available, Available_consensus_serialize)

\* (ConsensusHash, StacksBlock)::consensus_serialize
Block_consensus_serialize(e) == e[1] \o Opaque_consensus_serialize(e[2])

\* BlocksData::consensus_serialize
BlocksData_consensus_serialize(m) ==
    Vec_consensus_serialize(m.blocks, Block_consensus_serialize)

\* MicroblocksData::consensus_serialize
MicroblocksData_consensus_serialize(m) ==
    m.index_anchor_block \o
    Vec_consensus_serialize(m.microblocks, Opaque_consensus_serialize)

\* NatPunchData::consensus_serialize
NatPunchData_consensus_serialize(m) ==
    m.addrbytes \o BE(m.port, 2) \o BE(m.nonce, 4)

\* the names of the variants of StacksMessageType
MessageNames ==
    {"Handshake", "HandshakeAccept", "HandshakeReject", "GetNeighbors",
     "Neighbors", "GetBlocksInv", "BlocksInv", "GetPoxInv", "PoxInv",
     "BlocksAvailable", "MicroblocksAvailable", "Blocks", "Microblocks",
     "Transaction", "Nack", "Ping", "Pong", "NatPunchRequest",
     "NatPunchReply"}

\* StacksMessageID as u8 (the enum is declared in net/mod.rs)
StacksMessageID(name) ==
    CASE name = "Handshake"            -> 0
      [] name = "HandshakeAccept"      -> 1
      [] name = "HandshakeReject"      -> 2
      [] name = "GetNeighbors"         -> 3
      [] name = "Neighbors"            -> 4
      [] name = "GetBlocksInv"         -> 5
      [] name = "BlocksInv"            -> 6
      [] name = "GetPoxInv"            -> 7
      [] name = "PoxInv"               -> 8
      [] name = "BlocksAvailable"      -> 9
      [] name = "MicroblocksAvailable" -> 10
      [] name = "Blocks"               -> 11
      [] name = "Microblocks"          -> 12
      [] name = "Transaction"          -> 13
      [] name = "Nack"                 -> 14
      [] name = "Ping"                 -> 15
      [] name = "Pong"                 -> 16
      [] name = "NatPunchRequest"      -> 17
      [] name = "NatPunchReply"        -> 18
      [] name = "Reserved"             -> 255

\* StacksMessageType::get_message_id: each variant has the identifier of
\* its own name
get_message_id(payload) == payload.id

\* StacksMessageType::consensus_serialize: the tag byte, then the body
StacksMessageType_consensus_serialize(payload) ==
    <<StacksMessageID(get_message_id(payload))>> \o
    CASE payload.id = "Handshake" -> HandshakeData_consensus_serialize(payload)
      [] payload.id = "HandshakeAccept" ->
            HandshakeAcceptData_consensus_serialize(payload)
      [] payload.id \in {"HandshakeReject", "GetNeighbors"} -> <<>>
      [] payload.id = "Neighbors" -> NeighborsData_consensus_serialize(payload)
      [] payload.id = "GetPoxInv" -> GetPoxInv_consensus_serialize(payload)
      [] payload.id = "PoxInv" -> PoxInvData_consensus_serialize(payload)
      [] payload.id = "GetBlocksInv" ->
            GetBlocksInv_consensus_serialize(payload)
      [] payload.id = "BlocksInv" -> BlocksInvData_consensus_serialize(payload)
      [] payload.id \in {"BlocksAvailable", "MicroblocksAvailable"} ->
            BlocksAvailableData_consensus_serialize(payload)
      [] payload.id = "Blocks" -> BlocksData_consensus_serialize(payload)
      [] payload.id = "Microblocks" ->
            MicroblocksData_consensus_serialize(payload)
      [] payload.id = "Transaction" -> Opaque_consensus_serialize(payload.tx)
      [] payload.id = "Nack" -> BE(payload.error_code, 4)
      [] payload.id \in {"Ping", "Pong", "NatPunchRequest"} ->
            BE(payload.nonce, 4)
      [] payload.id = "NatPunchReply" ->
            NatPunchData_consensus_serialize(payload)

-----------------------------------------------------------------------------
(* StacksMessage. *)

\* StacksMessage::new: an unsigned message with no relayers
StacksMessage_new(peer_version, network_id, block_height, burn_header_hash, stable_block_height, stable_burn_header_hash, message) ==
    [preamble |-> Preamble_new(peer_version, network_id, block_height,
                               burn_header_hash, stable_block_height,
                               stable_burn_header_hash, 0),
     relayers |-> <<>>,
     payload  |-> message]

\* the bytes a message is signed over: relayers, then payload
MessageBits(m) ==
    Relayers_consensus_serialize(m.relayers) \o
    StacksMessageType_consensus_serialize(m.payload)

\* a variant that counts the payload alone
PayloadLenOf_payload_only(m) ==
    Len(StacksMessageType_consensus_serialize(m.payload))

\* `message_bits.len() as u32` in do_sign (the lengths modelled are far
\* below 2^32, so the cast keeps the value)
PayloadLenOf(m) == Len(MessageBits(m))

\* StacksMessage::do_sign.  Returns the message as the call leaves it and
\* the result.
do_sign(m, private_key, sign_fails) ==
    LET message_bits == MessageBits(m)
        m1 == [m EXCEPT !.preamble.payload_len = PayloadLenOf(m)]
        s  == Preamble_sign(m1.preamble, message_bits, private_key, sign_fails)
    IN  [msg |-> [m1 EXCEPT !.preamble = s.preamble], res |-> s.res]

\* a variant that signs whatever the relayer list holds
MayOriginate_always(m) == TRUE

\* the guard of StacksMessage::sign: no relayers yet
MayOriginate(m) == ~(Len(m.relayers) > 0)

\* StacksMessage::sign
StacksMessage_sign(m, seq, private_key, sign_fails) ==
    IF ~MayOriginate(m)
    THEN [msg |-> m, res |-> "InvalidMessage"]
    ELSE do_sign([m EXCEPT !.preamble.seq = seq], private_key, sign_fails)

\* a variant whose capacity test is off by one
RelayersFull_off_by_one(m) == Len(m.relayers) > MAX_RELAYERS_LEN

\* the first guard of sign_relay: the relayer list is at capacity
RelayersFull(m) == Len(m.relayers) >= MAX_RELAYERS_LEN

\* a variant that compares whole addresses instead of key hashes
AlreadyRelayed_whole_address(m, our_addr) ==
    \E i \in 1..Len(m.relayers) : m.relayers[i].peer = our_addr

\* the second guard of sign_relay: our key hash already signed this message
AlreadyRelayed(m, our_addr) ==
    \E i \in 1..Len(m.relayers) :
        m.relayers[i].peer.public_key_hash = our_addr.public_key_hash

\* a variant that records our own sequence number in the relay entry
OurRelay_our_seq(m, our_seq, our_addr) == [peer |-> our_addr, seq |-> our_seq]

\* the relay entry sign_relay saves: our address, the sequence number so far
OurRelay(m, our_seq, our_addr) == [peer |-> our_addr, seq |-> m.preamble.seq]

\* a variant that hands the message back untouched when signing fails
StacksMessage_sign_relay_all_or_nothing(m, private_key, our_seq, our_addr, sign_fails) ==
    IF RelayersFull(m) \/ AlreadyRelayed(m, our_addr)
    THEN [msg |-> m, res |-> "InvalidMessage"]
    ELSE LET m1 == [m EXCEPT !.relayers =
                        Append(m.relayers, OurRelay(m, our_seq, our_addr))]
             m2 == [m1 EXCEPT !.preamble.seq = our_seq]
             r  == do_sign(m2, private_key, sign_fails)
         IN  IF r.res = "Ok" THEN r ELSE [msg |-> m, res |-> r.res]

\* StacksMessage::sign_relay
StacksMessage_sign_relay(m, private_key, our_seq, our_addr, sign_fails) ==
    IF RelayersFull(m) \/ AlreadyRelayed(m, our_addr)
    THEN [msg |-> m, res |-> "InvalidMessage"]
    ELSE LET m1 == [m EXCEPT !.relayers =
                        Append(m.relayers, OurRelay(m, our_seq, our_addr))]
             m2 == [m1 EXCEPT !.preamble.seq = our_seq]
         IN  do_sign(m2, private_key, sign_fails)

\* StacksMessage::verify_secp256k1: works on a clone of the preamble
StacksMessage_verify_secp256k1(m, public_key) ==
    LET secp256k1_pubkey == to_public_key(public_key)
    IN  IF secp256k1_pubkey = 0 THEN "DeserializeError"
        ELSE Preamble_verify(m.preamble, MessageBits(m), secp256k1_pubkey).res

-----------------------------------------------------------------------------
(* Decoding.  A decoder reads `bytes` from position pos (the number of     *)
(* bytes already consumed) and returns [ok, err, val, pos]: the value and  *)
(* the new position, or the error and the position reached.                *)

NotDecoded == [ok |-> FALSE, err |-> "none", val |-> <<>>, pos |-> 0]

Ok(val, pos) == [ok |-> TRUE, err |-> "none", val |-> val, pos |-> pos]

Err(err, pos) == [ok |-> FALSE, err |-> err, val |-> <<>>, pos |-> pos]

\* a variant that makes up one missing byte
ReadBytes_padded(bytes, pos, n) ==
    IF pos + n > Len(bytes) + 1 THEN Err("ReadError", Len(bytes))
    ELSE Ok(SubSeq(bytes \o <<0>>, pos + 1, pos + n), pos + n)

\* read_next of a fixed-size value of n bytes: the bytes, or a ReadError
\* (unexpected EOF) when fewer than n are left
ReadBytes(bytes, pos, n) ==
    IF pos + n > Len(bytes) THEN Err("ReadError", Len(bytes))
    ELSE Ok(SubSeq(bytes, pos + 1, pos + n), pos + n)

\* the unsigned integer the bytes read hold, big-endian
AsInt(r) == IF r.ok THEN Ok(FromBE(r.val), r.pos) ELSE r

\* read_next of an unsigned integer of n bytes
ReadInt(bytes, pos, n) == AsInt(ReadBytes(bytes, pos, n))

\* a variant that lets payload_len reach MAX_MESSAGE_LEN
PayloadLenTooBig_inclusive(payload_len) == payload_len > MAX_MESSAGE_LEN

\* `payload_len >= MAX_MESSAGE_LEN` in Preamble::consensus_deserialize
PayloadLenTooBig(payload_len) == payload_len >= MAX_MESSAGE_LEN

\* Preamble::consensus_deserialize: ten fixed-size reads in declared order,
\* each of which ends the decoding with a ReadError when the input runs
\* out, then the three validations
Preamble_consensus_deserialize(bytes, pos) ==
    LET peer_version             == ReadInt(bytes, pos, 4)
        network_id               == ReadInt(bytes, peer_version.pos, 4)
        seq                      == ReadInt(bytes, network_id.pos, 4)
        burn_block_height        == ReadInt(bytes, seq.pos, 8)
        burn_block_hash          == ReadBytes(bytes, burn_block_height.pos, 32)
        burn_stable_block_height == ReadInt(bytes, burn_block_hash.pos, 8)
        burn_stable_block_hash   ==
            ReadBytes(bytes, burn_stable_block_height.pos, 32)
        additional_data          == ReadInt(bytes, burn_stable_block_hash.pos, 4)
        signature                ==
            ReadBytes(bytes, additional_data.pos, MESSAGE_SIGNATURE_ENCODED_SIZE)
        payload_len              == ReadInt(bytes, signature.pos, 4)
    IN  IF ~peer_version.ok THEN peer_version
        ELSE IF ~network_id.ok THEN network_id
        ELSE IF ~seq.ok THEN seq
        ELSE IF ~burn_block_height.ok THEN burn_block_height
        ELSE IF ~burn_block_hash.ok THEN burn_block_hash
        ELSE IF ~burn_stable_block_height.ok THEN burn_stable_block_height
        ELSE IF ~burn_stable_block_hash.ok THEN burn_stable_block_hash
        ELSE IF ~additional_data.ok THEN additional_data
        ELSE IF ~signature.ok THEN signature
        ELSE IF ~payload_len.ok THEN payload_len
        ELSE IF payload_len.val < 5
             THEN Err("DeserializeError", payload_len.pos)
        ELSE IF PayloadLenTooBig(payload_len.val)
             THEN Err("DeserializeError", payload_len.pos)
        ELSE IF burn_block_height.val <= burn_stable_block_height.val
             THEN Err("DeserializeError", payload_len.pos)
        ELSE Ok([peer_version             |-> peer_version.val,
                 network_id               |-> network_id.val,
                 seq                      |-> seq.val,
                 burn_block_height        |-> burn_block_height.val,
                 burn_block_hash          |-> burn_block_hash.val,
                 burn_stable_block_height |-> burn_stable_block_height.val,
                 burn_stable_block_hash   |-> burn_stable_block_hash.val,
                 additional_data          |-> additional_data.val,
                 signature                |-> signature.val,
                 payload_len              |-> payload_len.val],
                payload_len.pos)

\* NeighborAddress::consensus_deserialize
NeighborAddress_consensus_deserialize(bytes, pos) ==
    LET addrbytes       == ReadBytes(bytes, pos, 16)
        port            == ReadInt(bytes, addrbytes.pos, 2)
        public_key_hash == ReadBytes(bytes, port.pos, 20)
    IN  IF ~addrbytes.ok THEN addrbytes
        ELSE IF ~port.ok THEN port
        ELSE IF ~public_key_hash.ok THEN public_key_hash
        ELSE Ok([addrbytes |-> addrbytes.val, port |-> port.val,
                 public_key_hash |-> public_key_hash.val],
                public_key_hash.pos)

\* RelayData::consensus_deserialize
RelayData_consensus_deserialize(bytes, pos) ==
    LET peer == NeighborAddress_consensus_deserialize(bytes, pos)
        seq  == ReadInt(bytes, peer.pos, 4)
    IN  IF ~peer.ok THEN peer
        ELSE IF ~seq.ok THEN seq
        ELSE Ok([peer |-> peer.val, seq |-> seq.val], seq.pos)

\* the first n relay entries from pos on, appended to acc
RECURSIVE ReadRelayers(_, _, _, _)
ReadRelayers(bytes, pos, n, acc) ==
    IF n = 0 THEN Ok(acc, pos)
    ELSE LET item == RelayData_consensus_deserialize(bytes, pos)
         IN  IF ~item.ok THEN item
             ELSE ReadRelayers(bytes, item.pos, n - 1, Append(acc, item.val))

\* read_next_at_most::<_, RelayData>(fd, max_items): the 32-bit count, an
\* error when it exceeds max_items, and only then the entries
read_next_at_most_RelayData(bytes, pos, max_items) ==
    LET len == ReadInt(bytes, pos, 4)
    IN  IF ~len.ok THEN len
        ELSE IF len.val > max_items THEN Err("DeserializeError", len.pos)
        ELSE ReadRelayers(bytes, len.pos, len.val, <<>>)

\* UrlString::consensus_deserialize: the length byte, then that many bytes
UrlString_consensus_deserialize(bytes, pos) ==
    LET len == ReadInt(bytes, pos, 1)
    IN  IF ~len.ok THEN len ELSE ReadBytes(bytes, len.pos, len.val)

\* the stand-in decoder of StacksBlock, StacksMicroblock and
\* StacksTransaction: the length byte, then the body
Opaque_consensus_deserialize(bytes, pos) ==
    LET len == ReadInt(bytes, pos, 1)
    IN  IF ~len.ok THEN len ELSE ReadBytes(bytes, len.pos, len.val)

\* (ConsensusHash, BurnchainHeaderHash)::consensus_deserialize
Available_consensus_deserialize(bytes, pos) ==
    LET consensus_hash   == ReadBytes(bytes, pos, 20)
        burn_header_hash == ReadBytes(bytes, consensus_hash.pos, 32)
    IN  IF ~consensus_hash.ok THEN consensus_hash
        ELSE IF ~burn_header_hash.ok THEN burn_header_hash
        ELSE Ok(<<consensus_hash.val, burn_header_hash.val>>,
                burn_header_hash.pos)

\* (ConsensusHash, StacksBlock)::consensus_deserialize
Block_consensus_deserialize(bytes, pos) ==
    LET ch    == ReadBytes(bytes, pos, 20)
        block == Opaque_consensus_deserialize(bytes, ch.pos)
    IN  IF ~ch.ok THEN ch
        ELSE IF ~block.ok THEN block
        ELSE Ok(<<ch.val, block.val>>, block.pos)

\* the first n NeighborAddress items from pos on, appended to acc
RECURSIVE ReadNeighborAddresses(_, _, _, _)
ReadNeighborAddresses(bytes, pos, n, acc) ==
    IF n = 0 THEN Ok(acc, pos)
    ELSE LET item == NeighborAddress_consensus_deserialize(bytes, pos)
         IN  IF ~item.ok THEN item
             ELSE ReadNeighborAddresses(bytes, item.pos, n - 1,
                                        Append(acc, item.val))

\* the first n (ConsensusHash, BurnchainHeaderHash) items from pos on
RECURSIVE ReadAvailable(_, _, _, _)
ReadAvailable(bytes, pos, n, acc) ==
    IF n = 0 THEN Ok(acc, pos)
    ELSE LET item == Available_consensus_deserialize(bytes, pos)
         IN  IF ~item.ok THEN item
             ELSE ReadAvailable(bytes, item.pos, n - 1, Append(acc, item.val))

\* the first n (ConsensusHash, StacksBlock) items from pos on
RECURSIVE ReadBlocks(_, _, _, _)
ReadBlocks(bytes, pos, n, acc) ==
    IF n = 0 THEN Ok(acc, pos)
    ELSE LET item == Block_consensus_deserialize(bytes, pos)
         IN  IF ~item.ok THEN item
             ELSE ReadBlocks(bytes, item.pos, n - 1, Append(acc, item.val))

\* the first n StacksMicroblock items from pos on
RECURSIVE ReadMicroblocks(_, _, _, _)
ReadMicroblocks(bytes, pos, n, acc) ==
    IF n = 0 THEN Ok(acc, pos)
    ELSE LET item == Opaque_consensus_deserialize(bytes, pos)
         IN  IF ~item.ok THEN item
             ELSE ReadMicroblocks(bytes, item.pos, n - 1, Append(acc, item.val))

\* the n items of type T from pos on; the n items of a Vec<u8> are its
\* next n bytes
ReadItems(T, bytes, pos, n) ==
    CASE T = "u8"              -> ReadBytes(bytes, pos, n)
      [] T = "NeighborAddress" -> ReadNeighborAddresses(bytes, pos, n, <<>>)
      [] T = "Available"       -> ReadAvailable(bytes, pos, n, <<>>)
      [] T = "Block"           -> ReadBlocks(bytes, pos, n, <<>>)
      [] T = "Microblock"      -> ReadMicroblocks(bytes, pos, n, <<>>)

\* read_next_at_most::<_, T>(fd, max_items): the 32-bit count, an error
\* when it exceeds max_items, then the items
read_next_at_most(T, bytes, pos, max_items) ==
    LET len == ReadInt(bytes, pos, 4)
    IN  IF ~len.ok THEN len
        ELSE IF len.val > max_items THEN Err("DeserializeError", len.pos)
        ELSE ReadItems(T, bytes, len.pos, len.val)

\* read_next_exact::<_, T>(fd, num_items): the 32-bit count, an error when
\* it is not num_items, then the items
read_next_exact(T, bytes, pos, num_items) ==
    LET len == ReadInt(bytes, pos, 4)
    IN  IF ~len.ok THEN len
        ELSE IF len.val # num_items THEN Err("DeserializeError", len.pos)
        ELSE ReadItems(T, bytes, len.pos, len.val)

\* read_next::<Vec<T>>(fd): the 32-bit count, then the items
read_next_vec(T, bytes, pos) ==
    LET len == ReadInt(bytes, pos, 4)
    IN  IF ~len.ok THEN len
        ELSE ReadItems(T, bytes, len.pos, len.val)

\* a variant that lets port 0 through
PortIsZero_never(port) == FALSE

\* `port == 0` in HandshakeData::consensus_deserialize
PortIsZero(port) == port = 0

\* HandshakeData::consensus_deserialize
HandshakeData_consensus_deserialize(bytes, pos) ==
    LET addrbytes           == ReadBytes(bytes, pos, 16)
        port                == ReadInt(bytes, addrbytes.pos, 2)
        services            == ReadInt(bytes, port.pos, 2)
        node_public_key     == ReadBytes(bytes, services.pos, 33)
        expire_block_height == ReadInt(bytes, node_public_key.pos, 8)
        data_url            ==
            UrlString_consensus_deserialize(bytes, expire_block_height.pos)
    IN  IF ~addrbytes.ok THEN addrbytes
        ELSE IF ~port.ok THEN port
        ELSE IF PortIsZero(port.val) THEN Err("DeserializeError", port.pos)
        ELSE IF ~services.ok THEN services
        ELSE IF ~node_public_key.ok THEN node_public_key
        ELSE IF ~expire_block_height.ok THEN expire_block_height
        ELSE IF ~data_url.ok THEN data_url
        ELSE Ok([addrbytes           |-> addrbytes.val,
                 port                |-> port.val,
                 services            |-> services.val,
                 node_public_key     |-> node_public_key.val,
                 expire_block_height |-> expire_block_height.val,
                 data_url            |-> data_url.val],
                data_url.pos)

\* HandshakeAcceptData::consensus_deserialize
HandshakeAcceptData_consensus_deserialize(bytes, pos) ==
    LET handshake          == HandshakeData_consensus_deserialize(bytes, pos)
        heartbeat_interval == ReadInt(bytes, handshake.pos, 4)
    IN  IF ~handshake.ok THEN handshake
        ELSE IF ~heartbeat_interval.ok THEN heartbeat_interval
        ELSE Ok([handshake          |-> handshake.val,
                 heartbeat_interval |-> heartbeat_interval.val],
                heartbeat_interval.pos)

\* NeighborsData::consensus_deserialize
NeighborsData_consensus_deserialize(bytes, pos) ==
    LET neighbors == read_next_at_most("NeighborAddress", bytes, pos,
                                       MAX_NEIGHBORS_DATA_LEN)
    IN  IF ~neighbors.ok THEN neighbors
        ELSE Ok([neighbors |-> neighbors.val], neighbors.pos)

\* a variant that accepts one reward cycle more
PoxBitlenInvalid_off_by_one(bitlen) ==
    bitlen = 0 \/ bitlen > GETPOXINV_MAX_BITLEN + 1

\* `bitlen == 0 || (bitlen as u64) > GETPOXINV_MAX_BITLEN`, as GetPoxInv
\* and PoxInvData check it
PoxBitlenInvalid(bitlen) == bitlen = 0 \/ bitlen > GETPOXINV_MAX_BITLEN

\* GetPoxInv::consensus_deserialize
GetPoxInv_consensus_deserialize(bytes, pos) ==
    LET ch      == ReadBytes(bytes, pos, 20)
        num_rcs == ReadInt(bytes, ch.pos, 2)
    IN  IF ~ch.ok THEN ch
        ELSE IF ~num_rcs.ok THEN num_rcs
        ELSE IF PoxBitlenInvalid(num_rcs.val)
             THEN Err("DeserializeError", num_rcs.pos)
        ELSE Ok([consensus_hash |-> ch.val, num_cycles |-> num_rcs.val],
                num_rcs.pos)

\* a variant that asks for a whole number of bytes only
BitvecLenRequired_floor(bitlen) == bitlen \div 8

\* the vector length the inventory decoders hand to read_next_exact
BitvecLenRequired(bitlen) == BITVEC_LEN(bitlen)

\* PoxInvData::consensus_deserialize
PoxInvData_consensus_deserialize(bytes, pos) ==
    LET bitlen     == ReadInt(bytes, pos, 2)
        pox_bitvec == read_next_exact("u8", bytes, bitlen.pos,
                                      BitvecLenRequired(bitlen.val))
    IN  IF ~bitlen.ok THEN bitlen
        ELSE IF PoxBitlenInvalid(bitlen.val)
             THEN Err("DeserializeError", bitlen.pos)
        ELSE IF ~pox_bitvec.ok THEN pox_bitvec
        ELSE Ok([bitlen |-> bitlen.val, pox_bitvec |-> pox_bitvec.val],
                pox_bitvec.pos)

\* GetBlocksInv::consensus_deserialize
GetBlocksInv_consensus_deserialize(bytes, pos) ==
    LET consensus_hash == ReadBytes(bytes, pos, 20)
        num_blocks     == ReadInt(bytes, consensus_hash.pos, 2)
    IN  IF ~consensus_hash.ok THEN consensus_hash
        ELSE IF ~num_blocks.ok THEN num_blocks
        ELSE IF num_blocks.val = 0
             THEN Err("DeserializeError", num_blocks.pos)
        ELSE Ok([consensus_hash |-> consensus_hash.val,
                 num_blocks     |-> num_blocks.val],
                num_blocks.pos)

\* BlocksInvData::consensus_deserialize
BlocksInvData_consensus_deserialize(bytes, pos) ==
    LET bitlen             == ReadInt(bytes, pos, 2)
        block_bitvec       == read_next_exact("u8", bytes, bitlen.pos,
                                              BitvecLenRequired(bitlen.val))
        microblocks_bitvec == read_next_exact("u8", bytes, block_bitvec.pos,
                                              BitvecLenRequired(bitlen.val))
    IN  IF ~bitlen.ok THEN bitlen
        ELSE IF bitlen.val = 0 THEN Err("DeserializeError", bitlen.pos)
        ELSE IF ~block_bitvec.ok THEN block_bitvec
        ELSE IF ~microblocks_bitvec.ok THEN microblocks_bitvec
        ELSE Ok([bitlen             |-> bitlen.val,
                 block_bitvec       |-> block_bitvec.val,
                 microblocks_bitvec |-> microblocks_bitvec.val],
                microblocks_bitvec.pos)

\* BlocksAvailableData::consensus_deserialize
BlocksAvailableData_consensus_deserialize(bytes, pos) ==
    LET available == read_next_at_most("Available", bytes, pos,
                                       BLOCKS_AVAILABLE_MAX_LEN)
    IN  IF ~available.ok THEN available
        ELSE Ok([available |-> available.val], available.pos)

\* a variant that compares neighbouring entries only
HasDuplicate_adjacent(blocks) ==
    \E i \in 1..(Len(blocks) - 1) : blocks[i][1] = blocks[i + 1][1]

\* the loop over `present`: some entry carries the consensus hash of an
\* earlier one
HasDuplicate(blocks) ==
    \E i, j \in 1..Len(blocks) : i < j /\ blocks[i][1] = blocks[j][1]

\* BlocksData::consensus_deserialize
BlocksData_consensus_deserialize(bytes, pos) ==
    LET blocks == read_next_at_most("Block", bytes, pos, BLOCKS_PUSHED_MAX)
    IN  IF ~blocks.ok THEN blocks
        ELSE IF HasDuplicate(blocks.val)
             THEN Err("DeserializeError", blocks.pos)
        ELSE Ok([blocks |-> blocks.val], blocks.pos)

\* MicroblocksData::consensus_deserialize
MicroblocksData_consensus_deserialize(bytes, pos) ==
    LET index_anchor_block == ReadBytes(bytes, pos, 32)
        microblocks        ==
            read_next_vec("Microblock", bytes, index_anchor_block.pos)
    IN  IF ~index_anchor_block.ok THEN index_anchor_block
        ELSE IF ~microblocks.ok THEN microblocks
        ELSE Ok([index_anchor_block |-> index_anchor_block.val,
                 microblocks        |-> microblocks.val],
                microblocks.pos)

\* NatPunchData::consensus_deserialize
NatPunchData_consensus_deserialize(bytes, pos) ==
    LET addrbytes == ReadBytes(bytes, pos, 16)
        port      == ReadInt(bytes, addrbytes.pos, 2)
        nonce     == ReadInt(bytes, port.pos, 4)
    IN  IF ~addrbytes.ok THEN addrbytes
        ELSE IF ~port.ok THEN port
        ELSE IF ~nonce.ok THEN nonce
        ELSE Ok([addrbytes |-> addrbytes.val, port |-> port.val,
                 nonce |-> nonce.val],
                nonce.pos)

\* a variant that takes the Reserved identifier for a message
StacksMessageID_of_reserved(tag) ==
    IF tag = 255 THEN "Ping"
    ELSE IF \E name \in MessageNames : StacksMessageID(name) = tag
         THEN CHOOSE name \in MessageNames : StacksMessageID(name) = tag
         ELSE "Unknown"

\* StacksMessageID::consensus_deserialize: the variant whose identifier the
\* tag byte is, "Unknown" for a tag that no arm of the match takes
StacksMessageID_of(tag) ==
    IF \E name \in MessageNames : StacksMessageID(name) = tag
    THEN CHOOSE name \in MessageNames : StacksMessageID(name) = tag
    ELSE "Unknown"

\* a four-byte word read as the one field of a variant
WordField(id, word) ==
    IF ~word.ok THEN word
    ELSE IF id = "Nack" THEN Ok([error_code |-> word.val], word.pos)
    ELSE Ok([nonce |-> word.val], word.pos)

\* a transaction read as the one field of its variant
TxField(tx) == IF ~tx.ok THEN tx ELSE Ok([tx |-> tx.val], tx.pos)

\* the arms of the match in StacksMessageType::consensus_deserialize: the
\* body decoder of the variant id
ReadBody(id, bytes, pos) ==
    CASE id = "Handshake" -> HandshakeData_consensus_deserialize(bytes, pos)
      [] id = "HandshakeAccept" ->
            HandshakeAcceptData_consensus_deserialize(bytes, pos)
      [] id \in {"HandshakeReject", "GetNeighbors"} -> Ok(<<>>, pos)
      [] id = "Neighbors" -> NeighborsData_consensus_deserialize(bytes, pos)
      [] id = "GetPoxInv" -> GetPoxInv_consensus_deserialize(bytes, pos)
      [] id = "PoxInv" -> PoxInvData_consensus_deserialize(bytes, pos)
      [] id = "GetBlocksInv" -> GetBlocksInv_consensus_deserialize(bytes, pos)
      [] id = "BlocksInv" -> BlocksInvData_consensus_deserialize(bytes, pos)
      [] id \in {"BlocksAvailable", "MicroblocksAvailable"} ->
            BlocksAvailableData_consensus_deserialize(bytes, pos)
      [] id = "Blocks" -> BlocksData_consensus_deserialize(bytes, pos)
      [] id = "Microblocks" -> MicroblocksData_consensus_deserialize(bytes, pos)
      [] id = "Transaction" ->
            TxField(Opaque_consensus_deserialize(bytes, pos))
      [] id \in {"Nack", "Ping", "Pong", "NatPunchRequest"} ->
            WordField(id, ReadInt(bytes, pos, 4))
      [] id = "NatPunchReply" -> NatPunchData_consensus_deserialize(bytes, pos)
      [] id = "Unknown" -> Err("DeserializeError", pos)

\* the variant id with the fields its body decoder returned
Variant(id, body) ==
    IF ~body.ok THEN body ELSE Ok([id |-> id] @@ body.val, body.pos)

\* StacksMessageType::consensus_deserialize from the tag read on
AfterTag(bytes, tag) ==
    IF ~tag.ok THEN tag
    ELSE Variant(StacksMessageID_of(tag.val),
                 ReadBody(StacksMessageID_of(tag.val), bytes, tag.pos))

\* StacksMessageType::consensus_deserialize: the tag, then the body
StacksMessageType_consensus_deserialize(bytes, pos) ==
    AfterTag(bytes, ReadInt(bytes, pos, 1))

\* a variant that forgets the room the preamble itself takes
MessageTooBig_no_preamble(preamble) == preamble.payload_len > MAX_MESSAGE_LEN

\* `preamble.payload_len > MAX_MESSAGE_LEN - PREAMBLE_ENCODED_SIZE`
MessageTooBig(preamble) ==
    preamble.payload_len > MAX_MESSAGE_LEN - PREAMBLE_ENCODED_SIZE

\* a variant that returns the message without its relayers
MessageRead_no_relayers(preamble, relayers, payload) ==
    IF ~payload.ok THEN payload
    ELSE Ok([preamble |-> preamble.val, relayers |-> <<>>,
             payload |-> payload.val], payload.pos)

\* the end of StacksMessage::consensus_deserialize: the message of the
\* three parts read, or the error of the payload
MessageRead(preamble, relayers, payload) ==
    IF ~payload.ok THEN payload
    ELSE Ok([preamble |-> preamble.val, relayers |-> relayers.val,
             payload |-> payload.val], payload.pos)

\* StacksMessage::consensus_deserialize from the relayers read on
AfterRelayers(bytes, preamble, relayers) ==
    IF ~relayers.ok THEN relayers
    ELSE MessageRead(preamble, relayers,
                     StacksMessageType_consensus_deserialize(bytes,
                                                             relayers.pos))

\* StacksMessage::consensus_deserialize from the preamble read on
AfterPreamble(bytes, preamble) ==
    IF ~preamble.ok THEN preamble
    ELSE IF MessageTooBig(preamble.val)
         THEN Err("DeserializeError", preamble.pos)
    ELSE AfterRelayers(bytes, preamble,
                       read_next_at_most_RelayData(bytes, preamble.pos,
                                                   MAX_RELAYERS_LEN))

\* StacksMessage::consensus_deserialize: the preamble, the check of its
\* payload_len, the relayers, the payload
StacksMessage_consensus_deserialize(bytes, pos) ==
    AfterPreamble(bytes, Preamble_consensus_deserialize(bytes, pos))

\* StacksMessage::consensus_serialize
StacksMessage_consensus_serialize(m) ==
    Concat(<<Preamble_consensus_serialize(m.preamble),
             Relayers_consensus_serialize(m.relayers),
             StacksMessageType_consensus_serialize(m.payload)>>)

\* a variant that wants one byte more than the preamble takes
PreambleUnderflow_inclusive(buf) == Len(buf) <= PREAMBLE_ENCODED_SIZE

\* `buf.len() < PREAMBLE_ENCODED_SIZE as usize`
PreambleUnderflow(buf) == Len(buf) < PREAMBLE_ENCODED_SIZE

\* StacksP2P::read_preamble: the preamble decoded from the first
\* PREAMBLE_ENCODED_SIZE bytes of buf, and that size as the bytes consumed
read_preamble(buf) ==
    IF PreambleUnderflow(buf) THEN Err("UnderflowError", 0)
    ELSE LET preamble == Preamble_consensus_deserialize(
                             SubSeq(buf, 1, PREAMBLE_ENCODED_SIZE), 0)
         IN  IF ~preamble.ok THEN preamble
             ELSE Ok(preamble.val, PREAMBLE_ENCODED_SIZE)

\* the end of StacksMessage::deserialize_body: the relayers and the payload
\* read, or the error of the payload
BodyRead(relayers, payload) ==
    IF ~payload.ok THEN payload
    ELSE Ok([relayers |-> relayers.val, payload |-> payload.val], payload.pos)

\* StacksMessage::deserialize_body from the relayers read on
BodyAfterRelayers(bytes, relayers) ==
    IF ~relayers.ok THEN relayers
    ELSE BodyRead(relayers,
                  StacksMessageType_consensus_deserialize(bytes, relayers.pos))

\* StacksMessage::deserialize_body: the relayers, then the payload
StacksMessage_deserialize_body(bytes, pos) ==
    BodyAfterRelayers(bytes,
                      read_next_at_most_RelayData(bytes, pos, MAX_RELAYERS_LEN))

\* a variant that wants one byte more than payload_len
PayloadUnderflow_inclusive(preamble, bytes) == Len(bytes) <= preamble.payload_len

\* `bytes.len() < (preamble.payload_len as usize)`
PayloadUnderflow(preamble, bytes) == Len(bytes) < preamble.payload_len

\* a variant that hands the decoder every byte it was given
PayloadWindow_whole_buffer(preamble, bytes) == bytes

\* `&bytes[0..(preamble.payload_len as usize)]`
PayloadWindow(preamble, bytes) == SubSeq(bytes, 1, preamble.payload_len)

\* the end of read_payload: the message of the preamble given and the body
\* read, with the cursor's position, or the error of the body
PayloadRead(preamble, body) ==
    IF ~body.ok THEN body
    ELSE Ok([preamble |-> preamble, relayers |-> body.val.relayers,
             payload |-> body.val.payload], body.pos)

\* StacksP2P::read_payload
read_payload(preamble, bytes) ==
    IF PayloadUnderflow(preamble, bytes) THEN Err("UnderflowError", 0)
    ELSE PayloadRead(preamble,
                     StacksMessage_deserialize_body(
                         PayloadWindow(preamble, bytes), 0))

-----------------------------------------------------------------------------
(* AttachmentsInvRequest (src/src/net/atlas/mod.rs).  A ConsensusHash is   *)
(* 20 bytes, a BlockHeaderHash 32 bytes and a Hash160 20 bytes; a HashMap  *)
(* is a function from the keys it holds to their values.                   *)

\* ConsensusHash::empty()
ConsensusHash_empty == Rep(0, 20)

\* HashMap::new()
HashMap_new == [k \in {} |-> 0]

\* map.is_empty()
HashMap_is_empty(map) == DOMAIN map = {}

\* a variant of insert that keeps the value a key already has
HashMap_insert_if_absent(map, key, value) ==
    [k \in DOMAIN map \cup {key} |-> IF k \in DOMAIN map THEN map[k] ELSE value]

\* map.insert(key, value): the key now maps to value, whatever it mapped to
HashMap_insert(map, key, value) ==
    [k \in DOMAIN map \cup {key} |-> IF k = key THEN value ELSE map[k]]

\* AttachmentsInvRequest::new()
AttachmentsInvRequest_new ==
    [block_height        |-> 0,
     burn_block_height   |-> 0,
     consensus_hash      |-> ConsensusHash_empty,
     block_header_hash   |-> Rep(0, 32),
     missing_attachments |-> HashMap_new]

\* a variant that compares the block header hashes only
is_attachment_in_same_block_header_only(self, att) ==
    self.block_header_hash = att.block_header_hash

\* self.is_attachment_in_same_block(attachment)
is_attachment_in_same_block(self, att) ==
    /\ self.block_header_hash = att.block_header_hash
    /\ self.consensus_hash = att.consensus_hash

\* a variant under which an attachment of the stored height is adopted too
IsHigher_or_equal(self, att) == att.block_height >= self.block_height

\* `attachment.block_height > self.block_height`
IsHigher(self, att) == att.block_height > self.block_height

\* self.add_request(attachment): the request afterwards and the value
\* returned
add_request(self, att) ==
    IF /\ ~HashMap_is_empty(self.missing_attachments)
       /\ ~is_attachment_in_same_block(self, att)
    THEN [self |-> self, ret |-> FALSE]
    ELSE LET key == <<att.page_index, att.position_in_page>>
             inserted ==
                 [self EXCEPT !.missing_attachments =
                                  HashMap_insert(@, key, att.content_hash)]
         IN  [self |-> IF IsHigher(inserted, att)
                       THEN [inserted EXCEPT
                                !.block_height = att.block_height,
                                !.consensus_hash = att.consensus_hash,
                                !.block_header_hash = att.block_header_hash]
                       ELSE inserted,
              ret  |-> TRUE]

\* a Hasher is the sequence of the values written to it; value.hash(state)
\* writes the value
Hasher_new == <<>>

\* a variant of the Hash implementation that feeds the map as well
AttachmentsInvRequest_hash_with_map(self, state) ==
    state \o <<self.block_height, self.consensus_hash,
               self.block_header_hash, self.burn_block_height,
               self.missing_attachments>>

\* impl Hash for AttachmentsInvRequest: hash(&self, state)
AttachmentsInvRequest_hash(self, state) ==
    state \o <<self.block_height, self.consensus_hash,
               self.block_header_hash, self.burn_block_height>>

\* no hashes taken yet
NoHash ==
    [taken |-> FALSE, mine |-> <<>>, theirs |-> <<>>,
     other |-> AttachmentsInvRequest_new]

\* the derived PartialEq: every field is compared
AttachmentsInvRequest_eq(a, b) ==
    /\ a.block_height = b.block_height
    /\ a.consensus_hash = b.consensus_hash
    /\ a.block_header_hash = b.block_header_hash
    /\ a.burn_block_height = b.burn_block_height
    /\ a.missing_attachments = b.missing_attachments

-----------------------------------------------------------------------------
(* The inputs drawn. *)

\* StacksMessageType values a message may carry
Payloads == {[id |-> "Ping", nonce |-> 16909060], [id |-> "HandshakeReject"]}

\* the sequence numbers handed to sign, and those handed to sign_relay
SignSeqs == {444}
RelaySeqs == {445}

\* a NeighborAddress: 16 address bytes, a port, a 20-byte key hash
Addr(a, port, h) ==
    [addrbytes |-> Rep(a, 16), port |-> port, public_key_hash |-> Rep(h, 20)]

\* the addresses relaying peers sign with: three identities, and a second
\* socket address of the first identity
NeighborAddresses ==
    {Addr(1, 12345, 17), Addr(2, 12346, 34), Addr(3, 12347, 51),
     Addr(4, 12348, 17)}

\* the messages that differ from m in one field that is not the signature
Tampered(m) ==
    {[m EXCEPT !.preamble.peer_version = @ + 1],
     [m EXCEPT !.preamble.network_id = @ + 1],
     [m EXCEPT !.preamble.seq = @ + 1],
     [m EXCEPT !.preamble.burn_block_height = @ + 1],
     [m EXCEPT !.preamble.burn_block_hash = Rep(51, 32)],
     [m EXCEPT !.preamble.burn_stable_block_height = @ + 1],
     [m EXCEPT !.preamble.burn_stable_block_hash = Rep(51, 32)],
     [m EXCEPT !.preamble.additional_data = @ + 1],
     [m EXCEPT !.preamble.payload_len = @ + 1],
     [m EXCEPT !.relayers = Append(@, [peer |-> Addr(9, 9, 9), seq |-> 0])],
     [m EXCEPT !.payload = [id |-> "Pong", nonce |-> 16909060]]}
    \cup (IF m.relayers = <<>> THEN {} ELSE
            {[m EXCEPT !.relayers = SubSeq(@, 1, Len(@) - 1)],
             [m EXCEPT !.relayers[1].seq = @ + 1],
             [m EXCEPT !.relayers[1].peer.port = @ + 1],
             [m EXCEPT !.relayers[Len(m.relayers)].peer.public_key_hash
                          = Rep(9, 20)]})

-----------------------------------------------------------------------------
(* The message's life: built, signed, relayed, verified. *)

Init ==
    /\ \E message \in Payloads :
          msg = StacksMessage_new(16909060, 84281096, 12345, Rep(17, 32),
                                  12339, Rep(34, 32), message)
    /\ lastOp = "new"
    /\ res = "Ok"
    /\ prev = msg
    /\ arg = [op |-> "new"]
    /\ signedKey = 0
    /\ failures = 0
    /\ sent = msg
    /\ wire = <<>>
    /\ decoded = NotDecoded
    /\ framed = msg.preamble
    /\ bools = <<>>
    /\ invs = [blocks |-> BlocksInvData_empty,
              pox    |-> [bitlen |-> 0, pox_bitvec |-> <<>>]]
    /\ asked = 0
    /\ answer = NoBit
    /\ request = AttachmentsInvRequest_new
    /\ before = [self |-> AttachmentsInvRequest_new, addedBy |-> HashMap_new]
    /\ attachment = [content_hash |-> Rep(0, 20), page_index |-> 0,
                     position_in_page |-> 0, block_height |-> 0,
                     consensus_hash |-> ConsensusHash_empty,
                     block_header_hash |-> Rep(0, 32)]
    /\ returned = FALSE
    /\ addedBy = HashMap_new
    /\ heights = {}
    /\ accepts = 0
    /\ calls = 0
    /\ hashed = NoHash

\* what a signing call that returned r leaves behind
Signed(r, private_key) ==
    /\ private_key \in FailingKeys => failures < MaxSignFailures
    /\ msg' = r.msg
    /\ res' = r.res
    /\ prev' = msg
    /\ signedKey' = IF r.res = "Ok" THEN private_key
                    ELSE IF r.msg = msg THEN signedKey ELSE 0
    /\ failures' = IF r.res = "SigningError" THEN failures + 1 ELSE failures
    /\ UNCHANGED <<wireVars, bitVars, atlasVars>>

\* msg.sign(seq, &private_key)
SignWith(seqs, keys) ==
    \E seq \in seqs, private_key \in keys :
        LET r == StacksMessage_sign(msg, seq, private_key,
                                    private_key \in FailingKeys)
        IN  /\ Signed(r, private_key)
            /\ lastOp' = "sign"
            /\ arg' = [seq |-> seq, private_key |-> private_key]

\* msg.sign_relay(&private_key, our_seq, &our_addr)
SignRelayWith(seqs, keys, addrs) ==
    \E our_seq \in seqs, private_key \in keys, our_addr \in addrs :
        LET r == StacksMessage_sign_relay(msg, private_key, our_seq, our_addr,
                                          private_key \in FailingKeys)
        IN  /\ Signed(r, private_key)
            /\ lastOp' = "sign_relay"
            /\ arg' = [our_seq |-> our_seq, private_key |-> private_key,
                       our_addr |-> our_addr]

Sign == SignWith(SignSeqs, PrivateKeys \cup FailingKeys)

SignRelay == SignRelayWith(RelaySeqs, PrivateKeys \cup FailingKeys,
                           NeighborAddresses)

\* target.verify_secp256k1(&public_key), for the message or a copy of it
\* with one field changed.  Verifying changes nothing, so a second
\* verification in a row reaches no state that the first does not.
Verify ==
    \E target \in {msg} \cup Tampered(msg), public_key \in PublicKeyBuffers :
        /\ lastOp # "verify"
        /\ res' = StacksMessage_verify_secp256k1(target, public_key)
        /\ lastOp' = "verify"
        /\ arg' = [public_key |-> public_key]
        /\ prev' = target
        /\ UNCHANGED <<msg, signedKey, failures>>
        /\ UNCHANGED <<wireVars, bitVars, atlasVars>>

\* msg.preamble.verify(message_bits, &pubkey), on the message itself
PreambleVerify ==
    \E pubkey \in PublicKeys :
        LET v == Preamble_verify(msg.preamble, MessageBits(msg), pubkey)
        IN  /\ msg' = [msg EXCEPT !.preamble = v.preamble]
            /\ res' = v.res
            /\ lastOp' = "preamble_verify"
            /\ arg' = [pubkey |-> pubkey]
            /\ prev' = msg
            /\ UNCHANGED <<signedKey, failures>>
            /\ UNCHANGED <<wireVars, bitVars, atlasVars>>

Next == Sign \/ SignRelay \/ PreambleVerify

Spec == Init /\ [][Next]_vars

(* Signing with keys that work, relaying through two peers, and verifying  *)
(* the message and its one-field variants under every key buffer.          *)

SignV == SignWith(SignSeqs, PrivateKeys)

SignRelayV ==
    SignRelayWith(RelaySeqs, PrivateKeys,
                  {Addr(1, 12345, 17), Addr(2, 12346, 34)})

NextV == SignV \/ SignRelayV \/ Verify

SpecVerify == Init /\ [][NextV]_vars

(* A peer's encoded message arrives, whole or cut short, and is decoded as *)
(* a preamble or as a whole envelope.                                      *)

\* the relayer chain of n peers
RelayChain(n) ==
    [i \in 1..n |-> [peer |-> Addr(i, 12344 + i, 17 * i), seq |-> 400 + i]]

\* payload_len values around the limits the decoders enforce
PayloadLens ==
    {0, 4, 5, 47,
     MAX_MESSAGE_LEN - PREAMBLE_ENCODED_SIZE,
     MAX_MESSAGE_LEN - PREAMBLE_ENCODED_SIZE + 1,
     MAX_MESSAGE_LEN - 1, MAX_MESSAGE_LEN, MAX_MESSAGE_LEN + 1}

\* burn_block_height values around burn_stable_block_height = 12339
BurnHeights == {12338, 12339, 12340}

\* the messages a peer may encode: any payload_len, any order of the two
\* heights, up to one relayer more than the limit
SentMessages ==
    {[preamble |-> [Preamble_new(16909060, 84281096, burn_block_height,
                                 Rep(17, 32), 12339, Rep(34, 32), payload_len)
                    EXCEPT !.seq = 444, !.additional_data = 7,
                           !.signature = Rep(68, MESSAGE_SIGNATURE_ENCODED_SIZE)],
      relayers |-> RelayChain(n),
      payload  |-> message] :
        burn_block_height \in BurnHeights, payload_len \in PayloadLens,
        n \in 0..(MAX_RELAYERS_LEN + 1), message \in Payloads}

\* where the bytes of an encoding of length n may end: whole, one byte
\* short, inside the relayer count, after the preamble, inside the preamble
Cuts(n) ==
    {n, n - 1, PREAMBLE_ENCODED_SIZE + 3, PREAMBLE_ENCODED_SIZE,
     PREAMBLE_ENCODED_SIZE - 1}

\* a 20-byte consensus hash
Hash20(b) == Rep(b, 20)

\* handshake data with the given port and data URL
Handshake(port, data_url) ==
    [addrbytes |-> Rep(1, 16), port |-> port, services |-> 1,
     node_public_key |-> from_public_key(1), expire_block_height |-> 12350,
     data_url |-> data_url]

\* the bit-vector lengths tried for bitlen bits: the length required, one
\* byte less, one byte more
BitvecLens(bitlen) ==
    {n \in {BITVEC_LEN(bitlen) - 1, BITVEC_LEN(bitlen), BITVEC_LEN(bitlen) + 1} :
        n >= 0}

\* the sequences of at most n entries over the set S
RECURSIVE SeqsUpTo(_, _)
SeqsUpTo(S, n) ==
    IF n = 0 THEN {<<>>}
    ELSE LET shorter == SeqsUpTo(S, n - 1)
         IN  shorter \cup {Append(q, x) : q \in shorter, x \in S}

\* the payloads a peer may encode, every variant among them, with field
\* values on both sides of what the decoders accept
PayloadValues ==
    Payloads
    \cup {[id |-> "Handshake"] @@ Handshake(port, data_url) :
            port \in {0, 1, 65535}, data_url \in {<<>>, <<104, 116>>}}
    \cup {[id |-> "HandshakeAccept", handshake |-> Handshake(port, <<104>>),
           heartbeat_interval |-> 30] : port \in {0, 12345}}
    \cup {[id |-> "GetNeighbors"]}
    \cup {[id |-> "Neighbors",
           neighbors |-> [i \in 1..n |-> Addr(i, 12344 + i, 17 * i)]] :
            n \in 0..(MAX_NEIGHBORS_DATA_LEN + 1)}
    \cup {[id |-> "GetPoxInv", consensus_hash |-> Hash20(85),
           num_cycles |-> num_cycles] :
            num_cycles \in {0, 1, GETPOXINV_MAX_BITLEN,
                            GETPOXINV_MAX_BITLEN + 1, 65535}}
    \cup {[id |-> "PoxInv", bitlen |-> bitlen, pox_bitvec |-> Rep(255, n)] :
            bitlen \in {0, 1, GETPOXINV_MAX_BITLEN, GETPOXINV_MAX_BITLEN + 1},
            n \in 0..(BITVEC_LEN(GETPOXINV_MAX_BITLEN + 1) + 1)}
    \cup {[id |-> "GetBlocksInv", consensus_hash |-> Hash20(85),
           num_blocks |-> num_blocks] : num_blocks \in {0, 1, 32, 65535}}
    \cup UNION {{[id |-> "BlocksInv", bitlen |-> bitlen,
                   block_bitvec |-> Rep(255, n),
                   microblocks_bitvec |-> Rep(170, k)] :
                    n \in BitvecLens(bitlen), k \in BitvecLens(bitlen)} :
                 bitlen \in {0, 1, 8, 9, 1000}}
    \cup {[id |-> id,
           available |-> [i \in 1..n |-> <<Hash20(i), Rep(i, 32)>>]] :
            id \in {"BlocksAvailable", "MicroblocksAvailable"},
            n \in 0..(BLOCKS_AVAILABLE_MAX_LEN + 1)}
    \cup {[id |-> "Blocks",
           blocks |-> [i \in 1..Len(chs) |-> <<Hash20(chs[i]), Rep(i, i)>>]] :
            chs \in SeqsUpTo({17 * i : i \in 1..BLOCKS_PUSHED_MAX},
                             BLOCKS_PUSHED_MAX + 1)}
    \cup {[id |-> "Microblocks", index_anchor_block |-> Rep(119, 32),
           microblocks |-> [i \in 1..n |-> Rep(i, i + 1)]] : n \in {0, 2}}
    \cup {[id |-> "Transaction", tx |-> <<1, 2, 3>>],
          [id |-> "Nack", error_code |-> 16909060],
          [id |-> "Pong", nonce |-> 16909060],
          [id |-> "NatPunchRequest", nonce |-> 16909060],
          [id |-> "NatPunchReply", addrbytes |-> Rep(1, 16), port |-> 12345,
           nonce |-> 16909060]}

\* a message as it is once signed: payload_len is the length of its body
WithPayloadLen(m) == [m EXCEPT !.preamble.payload_len = Len(MessageBits(m))]

\* messages with a preamble the decoders accept, carrying every payload
\* drawn, unrelayed or through a full relay chain
SentPayloadMessages ==
    {WithPayloadLen(
        [preamble |-> [Preamble_new(16909060, 84281096, 12345, Rep(17, 32),
                                    12339, Rep(34, 32), 0)
                       EXCEPT !.seq = 444, !.additional_data = 7,
                              !.signature =
                                  Rep(68, MESSAGE_SIGNATURE_ENCODED_SIZE)],
         relayers |-> RelayChain(n),
         payload  |-> message]) :
        n \in {0, MAX_RELAYERS_LEN}, message \in PayloadValues}

\* the bytes of one encoded message arrive
Receive ==
    /\ lastOp = "new"
    /\ \E m \in SentMessages \cup SentPayloadMessages :
          LET bytes == StacksMessage_consensus_serialize(m)
          IN  \E n \in Cuts(Len(bytes)) :
                 /\ sent' = m
                 /\ wire' = SubSeq(bytes, 1, n)
    /\ decoded' = NotDecoded
    /\ lastOp' = "receive"
    /\ res' = "Ok"
    /\ UNCHANGED <<msgVars, bitVars, atlasVars, framed>>

\* a byte string followed by a copy of itself
Twice(bytes) == bytes \o bytes

\* the bytes of two copies of one encoded message arrive back to back, as
\* on a stream
ReceiveStream ==
    /\ lastOp = "new"
    /\ \E m \in SentMessages \cup SentPayloadMessages :
          /\ sent' = m
          /\ wire' = Twice(StacksMessage_consensus_serialize(m))
    /\ decoded' = NotDecoded
    /\ lastOp' = "receive_stream"
    /\ res' = "Ok"
    /\ UNCHANGED <<msgVars, bitVars, atlasVars, framed>>

\* the bytes of one encoded payload arrive, whole or one byte short
ReceivePayload ==
    /\ lastOp = "new"
    /\ \E m \in SentPayloadMessages :
          LET bytes == StacksMessageType_consensus_serialize(m.payload)
          IN  \E n \in {Len(bytes), Len(bytes) - 1} :
                 /\ m.relayers = <<>>
                 /\ sent' = m
                 /\ wire' = SubSeq(bytes, 1, n)
    /\ decoded' = NotDecoded
    /\ lastOp' = "receive_payload"
    /\ res' = "Ok"
    /\ UNCHANGED <<msgVars, bitVars, atlasVars, framed>>

\* the bytes of a Ping arrive with any tag byte in place of its own
ReceiveTag ==
    /\ lastOp = "new"
    /\ \E m \in SentPayloadMessages, tag \in Byte :
          /\ m.relayers = <<>>
          /\ m.payload.id = "Ping"
          /\ sent' = m
          /\ wire' = <<tag>> \o
                     Tail(StacksMessageType_consensus_serialize(m.payload))
    /\ decoded' = NotDecoded
    /\ lastOp' = "receive_payload"
    /\ res' = "Ok"
    /\ UNCHANGED <<msgVars, bitVars, atlasVars, framed>>

\* the bytes of one encoded relayer arrive, whole or one byte short
ReceiveRelayer ==
    /\ lastOp = "new"
    /\ \E m \in SentPayloadMessages :
          /\ m.relayers # <<>>
          /\ m.payload.id = "Ping"
          /\ LET bytes == RelayData_consensus_serialize(m.relayers[1])
             IN  \E n \in {Len(bytes), Len(bytes) - 1} :
                 /\ sent' = m
                 /\ wire' = SubSeq(bytes, 1, n)
    /\ decoded' = NotDecoded
    /\ lastOp' = "receive_relayer"
    /\ res' = "Ok"
    /\ UNCHANGED <<msgVars, bitVars, atlasVars, framed>>

\* what a decoder that returned r leaves behind
Returned(r) ==
    /\ decoded' = r
    /\ res' = IF r.ok THEN "Ok" ELSE r.err
    /\ UNCHANGED <<sent, wire>>
    /\ UNCHANGED <<msgVars, bitVars, atlasVars>>

\* what a decoder other than read_payload that returned r leaves behind
Decoded(r) ==
    /\ Returned(r)
    /\ UNCHANGED framed

\* Preamble::consensus_deserialize(&mut &wire[..])
DecodePreamble ==
    /\ lastOp = "receive"
    /\ Decoded(Preamble_consensus_deserialize(wire, 0))
    /\ lastOp' = "decode_preamble"

\* StacksMessage::consensus_deserialize(&mut &wire[..])
DecodeMessage ==
    /\ lastOp = "receive"
    /\ Decoded(StacksMessage_consensus_deserialize(wire, 0))
    /\ lastOp' = "decode_message"

\* StacksMessageType::consensus_deserialize(&mut &wire[..])
DecodePayload ==
    /\ lastOp = "receive_payload"
    /\ Decoded(StacksMessageType_consensus_deserialize(wire, 0))
    /\ lastOp' = "decode_payload"

\* RelayData::consensus_deserialize(&mut &wire[..])
DecodeRelayData ==
    /\ lastOp = "receive_relayer"
    /\ Decoded(RelayData_consensus_deserialize(wire, 0))
    /\ lastOp' = "decode_relayer"

\* StacksP2P::read_preamble(&wire)
ReadPreamble ==
    /\ lastOp \in {"receive", "receive_stream"}
    /\ Decoded(read_preamble(wire))
    /\ lastOp' = "read_preamble"

\* StacksP2P::read_payload(&preamble, &wire[consumed..]) with the preamble
\* and the consumed count that read_preamble returned
ReadPayload ==
    /\ lastOp = "read_preamble"
    /\ decoded.ok
    /\ Returned(read_payload(decoded.val,
                             SubSeq(wire, decoded.pos + 1, Len(wire))))
    /\ framed' = decoded.val
    /\ lastOp' = "read_payload"

\* the indexes asked for: within the vector, just past it, far past it
Indexes == 0..(MaxBits + 1) \cup {65535}

\* the indexes a decoded inventory is asked for: those, and its last bit
\* and the index after it
IndexesOf(inv) == Indexes \cup ({inv.bitlen - 1, inv.bitlen} \cap 0..65535)

\* what a has_ith_ call with index i on the decoded inventory leaves
\* behind, when it returned r
AskedDecoded(i, r) ==
    /\ asked' = i
    /\ answer' = r
    /\ res' = IF r.panicked THEN "panic" ELSE "Ok"
    /\ UNCHANGED <<bools, invs>>
    /\ UNCHANGED <<msgVars, wireVars, atlasVars>>

\* has_ith_block(i) on the BlocksInvData decoded
DecodedHasIthBlock ==
    /\ lastOp = "decode_payload"
    /\ decoded.ok
    /\ decoded.val.id = "BlocksInv"
    /\ \E i \in IndexesOf(decoded.val) :
          AskedDecoded(i, has_ith_block(decoded.val, i))
    /\ lastOp' = "decoded_has_ith_block"

\* has_ith_microblock_stream(i) on the BlocksInvData decoded
DecodedHasIthMicroblockStream ==
    /\ lastOp = "decode_payload"
    /\ decoded.ok
    /\ decoded.val.id = "BlocksInv"
    /\ \E i \in IndexesOf(decoded.val) :
          AskedDecoded(i, has_ith_microblock_stream(decoded.val, i))
    /\ lastOp' = "decoded_has_ith_microblock_stream"

\* has_ith_reward_cycle(i) on the PoxInvData decoded
DecodedHasIthRewardCycle ==
    /\ lastOp = "decode_payload"
    /\ decoded.ok
    /\ decoded.val.id = "PoxInv"
    /\ \E i \in IndexesOf(decoded.val) :
          AskedDecoded(i, has_ith_reward_cycle(decoded.val, i))
    /\ lastOp' = "decoded_has_ith_reward_cycle"

NextD ==
    \/ Receive
    \/ ReceiveStream
    \/ ReceivePayload
    \/ ReceiveTag
    \/ ReceiveRelayer
    \/ DecodePreamble
    \/ DecodeMessage
    \/ DecodePayload
    \/ DecodeRelayData
    \/ ReadPreamble
    \/ ReadPayload
    \/ DecodedHasIthBlock
    \/ DecodedHasIthMicroblockStream
    \/ DecodedHasIthRewardCycle

SpecDecode == Init /\ [][NextD]_vars

(* Booleans are packed into inventories, and the inventories are asked    *)
(* for single bits.                                                        *)

\* the vectors of booleans of length 1..MaxBits
RECURSIVE BoolVectors(_)
BoolVectors(n) ==
    IF n = 0 THEN {}
    ELSE BoolVectors(n - 1) \cup [1..n -> BOOLEAN]

\* the vector with every boolean negated
Negated(bs) == [i \in 1..Len(bs) |-> ~bs[i]]

\* inventories are built over a vector bs: bitlen = |bs|, the block and
\* PoX bits are bs, the microblock bits are the negation of bs
CompressBools ==
    /\ lastOp = "new"
    /\ \E bs \in BoolVectors(MaxBits) :
          /\ bools' = bs
          /\ invs' = [blocks |-> [bitlen |-> Len(bs),
                                 block_bitvec |-> compress_bools(bs),
                                 microblocks_bitvec |->
                                     compress_bools(Negated(bs))],
                     pox    |-> [bitlen |-> Len(bs),
                                 pox_bitvec |-> compress_bools(bs)]]
    /\ lastOp' = "compress_bools"
    /\ res' = "Ok"
    /\ UNCHANGED <<asked, answer>>
    /\ UNCHANGED <<msgVars, wireVars, atlasVars>>

\* what a has_ith_ call with index i that returned r leaves behind
Asked(i, r) ==
    /\ lastOp = "compress_bools"
    /\ asked' = i
    /\ answer' = r
    /\ res' = IF r.panicked THEN "panic" ELSE "Ok"
    /\ UNCHANGED <<bools, invs>>
    /\ UNCHANGED <<msgVars, wireVars, atlasVars>>

\* invs.blocks.has_ith_block(i)
HasIthBlock ==
    \E i \in Indexes :
        /\ Asked(i, has_ith_block(invs.blocks, i))
        /\ lastOp' = "has_ith_block"

\* invs.blocks.has_ith_microblock_stream(i)
HasIthMicroblockStream ==
    \E i \in Indexes :
        /\ Asked(i, has_ith_microblock_stream(invs.blocks, i))
        /\ lastOp' = "has_ith_microblock_stream"

\* invs.pox.has_ith_reward_cycle(i)
HasIthRewardCycle ==
    \E i \in Indexes :
        /\ Asked(i, has_ith_reward_cycle(invs.pox, i))
        /\ lastOp' = "has_ith_reward_cycle"

NextB ==
    \/ CompressBools
    \/ HasIthBlock
    \/ HasIthMicroblockStream
    \/ HasIthRewardCycle

SpecBits == Init /\ [][NextB]_vars

-----------------------------------------------------------------------------
(* An AttachmentsInvRequest is created, attachments are added to it, and   *)
(* it is hashed next to another request.                                   *)

\* an AttachmentInstance, as far as add_request reads it
AttachmentInstance(content, page, position, height, consensus, header) ==
    [content_hash      |-> Rep(content, 20),
     page_index        |-> page,
     position_in_page  |-> position,
     block_height      |-> height,
     consensus_hash    |-> Rep(consensus, 20),
     block_header_hash |-> Rep(header, 32)]

\* the blocks attachments belong to, as (consensus hash byte, header hash
\* byte): the block whose hashes a new request holds, a block, and a block
\* with the same header hash and another consensus hash
Blocks == {<<0, 0>>, <<1, 1>>, <<0, 1>>}

\* the attachments handed to add_request: two contents, two keys, three
\* heights (0 is the height a new request holds) and the three blocks
AttachmentInstances ==
    {AttachmentInstance(content, 0, position, height, block[1], block[2]) :
        content \in {1, 2}, position \in {0, 1}, height \in 0..2,
        block \in Blocks}

\* the (consensus_hash, block_header_hash) of a request or an attachment
BlockOf(x) == <<x.consensus_hash, x.block_header_hash>>

\* the requests `self` is hashed next to: itself, requests that differ from
\* it in the map only, and requests that differ from it in one other field
OtherRequests(self) ==
    {self,
     [self EXCEPT !.missing_attachments = HashMap_new],
     [self EXCEPT !.missing_attachments =
                      HashMap_insert(@, <<0, 1>>, Rep(3, 20))],
     [self EXCEPT !.block_height = @ + 1],
     [self EXCEPT !.burn_block_height = @ + 1],
     [self EXCEPT !.consensus_hash = Rep(7, 20)],
     [self EXCEPT !.block_header_hash = Rep(7, 32)]}

\* request.add_request(&att)
AddRequest ==
    /\ lastOp \in {"new", "add_request"}
    /\ calls < MaxRequests
    /\ \E att \in AttachmentInstances :
          LET r   == add_request(request, att)
              key == <<att.page_index, att.position_in_page>>
          IN  /\ request' = r.self
              /\ returned' = r.ret
              /\ before' = [self |-> request, addedBy |-> addedBy]
              /\ attachment' = att
              /\ addedBy' =
                    IF r.ret
                    THEN [k \in DOMAIN addedBy \cup {key} |->
                             IF k = key THEN BlockOf(att) ELSE addedBy[k]]
                    ELSE addedBy
              /\ heights' = IF r.ret THEN heights \cup {att.block_height}
                            ELSE heights
              /\ accepts' = IF r.ret THEN accepts + 1 ELSE accepts
    /\ calls' = calls + 1
    /\ UNCHANGED hashed
    /\ lastOp' = "add_request"
    /\ res' = "Ok"
    /\ UNCHANGED <<msgVars, wireVars, bitVars>>

\* request.hash(&mut hasher) and other.hash(&mut hasher) with new hashers
HashRequests ==
    /\ lastOp \in {"new", "add_request"}
    /\ \E other \in OtherRequests(request) :
          hashed' = [taken  |-> TRUE,
                     mine   |-> AttachmentsInvRequest_hash(request, Hasher_new),
                     theirs |-> AttachmentsInvRequest_hash(other, Hasher_new),
                     other  |-> other]
    /\ lastOp' = "hash"
    /\ res' = "Ok"
    /\ UNCHANGED <<request, before, attachment, returned, addedBy, heights, accepts, calls>>
    /\ UNCHANGED <<msgVars, wireVars, bitVars>>

NextA ==
    \/ AddRequest
    \/ HashRequests

SpecAtlas == Init /\ [][NextA]_vars

-----------------------------------------------------------------------------
(* Signing and verification. *)

\* C1: once a signing call has succeeded with the private key sk and the
\* message has not changed since, verify_secp256k1 with a buffer that holds
\* a public key returns Ok when it is called on the message itself with
\* the public key of sk, and a Verifying error when it is called on a copy
\* with one preamble field other than the signature, the relayers or the
\* payload changed, or with another public key.
C1_SignThenVerify ==
    (lastOp = "verify" /\ signedKey # 0 /\ to_public_key(arg.public_key) # 0)
    => res = IF /\ prev = msg
                /\ to_public_key(arg.public_key) = PublicKeyOf(signedKey)
             THEN "Ok" ELSE "VerifyingError"

\* a relayed and signed message verified under its signer's key
C1_Witness ==
    /\ lastOp = "verify"
    /\ signedKey # 0
    /\ prev = msg
    /\ msg.relayers # <<>>
    /\ res = "Ok"

\* C2: sign on a message whose relayer list is not empty returns
\* InvalidMessage and leaves the whole message as it was.
C2_SignRejectsRelayed ==
    (lastOp = "sign" /\ Len(prev.relayers) > 0)
    => (res = "InvalidMessage" /\ msg = prev)

C2_Witness ==
    /\ lastOp = "sign"
    /\ Len(prev.relayers) > 0
    /\ res = "InvalidMessage"
    /\ prev.preamble.signature # EmptySignature

\* C3: sign_relay returns InvalidMessage and changes nothing when the
\* relayer list already holds MAX_RELAYERS_LEN entries or one of its
\* entries has the public_key_hash of our_addr.
C3_SignRelayRejects ==
    (/\ lastOp = "sign_relay"
     /\ \/ Len(prev.relayers) >= MAX_RELAYERS_LEN
        \/ \E i \in 1..Len(prev.relayers) :
              prev.relayers[i].peer.public_key_hash
                  = arg.our_addr.public_key_hash)
    => (res = "InvalidMessage" /\ msg = prev)

\* a relay refused for capacity alone: the key hash is new to the chain
C3_Witness ==
    /\ lastOp = "sign_relay"
    /\ res = "InvalidMessage"
    /\ Len(prev.relayers) = MAX_RELAYERS_LEN
    /\ \A i \in 1..Len(prev.relayers) :
          prev.relayers[i].peer.public_key_hash
              # arg.our_addr.public_key_hash

\* C4: a successful sign_relay appends exactly the entry (our_addr, the
\* sequence number the preamble held before) to the relayer list, keeps
\* the earlier entries and the payload, and sets preamble.seq to our_seq.
C4_SignRelayAppends ==
    (lastOp = "sign_relay" /\ res = "Ok")
    => /\ msg.relayers = Append(prev.relayers,
                                [peer |-> arg.our_addr,
                                 seq  |-> prev.preamble.seq])
       /\ msg.payload = prev.payload
       /\ msg.preamble.seq = arg.our_seq

\* the first relayer of a message its originator signed
C4_Witness ==
    /\ lastOp = "sign_relay"
    /\ res = "Ok"
    /\ prev.preamble.signature # EmptySignature
    /\ prev.preamble.seq # arg.our_seq
    /\ prev.preamble.seq # 0

\* C5: whatever sign and sign_relay calls were made, the relayer list has
\* at most MAX_RELAYERS_LEN entries and no two entries with the same
\* public_key_hash.
C5_RelayChainBounded ==
    /\ Len(msg.relayers) <= MAX_RELAYERS_LEN
    /\ \A i, j \in 1..Len(msg.relayers) :
          msg.relayers[i].peer.public_key_hash
              = msg.relayers[j].peer.public_key_hash => i = j

\* a full chain that has just refused one more relayer
C5_Witness ==
    /\ Len(msg.relayers) = MAX_RELAYERS_LEN
    /\ lastOp = "sign_relay"
    /\ res = "InvalidMessage"

\* C6: after a successful sign or sign_relay, preamble.payload_len is the
\* length of the encoded relayer list plus the length of the encoded
\* payload, as the message holds them.
C6_PayloadLenMatches ==
    (lastOp \in {"sign", "sign_relay"} /\ res = "Ok")
    => msg.preamble.payload_len
         = Len(Relayers_consensus_serialize(msg.relayers))
           + Len(StacksMessageType_consensus_serialize(msg.payload))

C6_Witness ==
    /\ lastOp = "sign_relay"
    /\ res = "Ok"
    /\ msg.preamble.payload_len > prev.preamble.payload_len
    /\ prev.preamble.payload_len > 0

C8_DigestIgnoresSignature ==
    (lastOp \in {"sign", "sign_relay"} /\ res = "Ok")
    => msg.preamble.signature
         = PrivSign(arg.private_key,
                    Sha512Trunc256(
                        Preamble_consensus_serialize(
                            [msg.preamble EXCEPT !.signature = EmptySignature])
                        \o MessageBits(msg)))

\* a signing over a preamble that already held a signature
C8_Witness ==
    /\ lastOp \in {"sign", "sign_relay"}
    /\ res = "Ok"
    /\ prev.preamble.signature # EmptySignature
    /\ msg.preamble.signature # prev.preamble.signature

-----------------------------------------------------------------------------
(* Decoding limits. *)

\* C9: decoding a preamble from an input that holds all of its bytes fails
\* with a Deserialize error when payload_len < 5, when payload_len >=
\* MAX_MESSAGE_LEN, or when burn_block_height <= burn_stable_block_height,
\* and in every other case succeeds with exactly the field values encoded.
C9_PreambleDecodeChecks ==
    (lastOp = "decode_preamble" /\ Len(wire) >= PREAMBLE_ENCODED_SIZE)
    => IF \/ sent.preamble.payload_len < 5
          \/ sent.preamble.payload_len >= MAX_MESSAGE_LEN
          \/ sent.preamble.burn_block_height
                <= sent.preamble.burn_stable_block_height
       THEN ~decoded.ok /\ decoded.err = "DeserializeError"
       ELSE decoded.ok /\ decoded.val = sent.preamble

\* the largest payload_len the preamble decoder accepts
C9_Witness ==
    /\ lastOp = "decode_preamble"
    /\ Len(wire) >= PREAMBLE_ENCODED_SIZE
    /\ sent.preamble.payload_len = MAX_MESSAGE_LEN - 1
    /\ decoded.ok
    /\ decoded.val = sent.preamble

\* C10: decoding a whole envelope fails when the preamble's payload_len is
\* greater than MAX_MESSAGE_LEN - PREAMBLE_ENCODED_SIZE, having read the
\* preamble only, and fails when the relayer count declared is greater than
\* MAX_RELAYERS_LEN, having read no further than that count: no relayer
\* entry and no payload byte is decoded in either case.
C10_EnvelopeDecodeLimits ==
    (lastOp = "decode_message" /\ Len(wire) >= PREAMBLE_ENCODED_SIZE + 4)
    => /\ sent.preamble.payload_len > MAX_MESSAGE_LEN - PREAMBLE_ENCODED_SIZE
            => (~decoded.ok /\ decoded.pos = PREAMBLE_ENCODED_SIZE)
       /\ Len(sent.relayers) > MAX_RELAYERS_LEN
            => (~decoded.ok /\ decoded.pos <= PREAMBLE_ENCODED_SIZE + 4)

\* a well-formed preamble followed by one relayer too many
C10_Witness ==
    /\ lastOp = "decode_message"
    /\ Len(wire) = Len(StacksMessage_consensus_serialize(sent))
    /\ sent.preamble.payload_len = 47
    /\ sent.preamble.burn_block_height > sent.preamble.burn_stable_block_height
    /\ Len(sent.relayers) = MAX_RELAYERS_LEN + 1
    /\ ~decoded.ok
    /\ decoded.pos = PREAMBLE_ENCODED_SIZE + 4

\* the preambles both the preamble decoder and the envelope decoder accept
PreambleValid(preamble) ==
    /\ preamble.payload_len >= 5
    /\ preamble.payload_len <= MAX_MESSAGE_LEN - PREAMBLE_ENCODED_SIZE
    /\ preamble.burn_block_height > preamble.burn_stable_block_height

\* the payloads whose field values the variant decoders accept
PayloadValid(v) ==
    CASE v.id = "Handshake" -> v.port # 0
      [] v.id = "HandshakeAccept" -> v.handshake.port # 0
      [] v.id = "Neighbors" -> Len(v.neighbors) <= MAX_NEIGHBORS_DATA_LEN
      [] v.id = "GetPoxInv" ->
            v.num_cycles >= 1 /\ v.num_cycles <= GETPOXINV_MAX_BITLEN
      [] v.id = "PoxInv" ->
            /\ v.bitlen >= 1
            /\ v.bitlen <= GETPOXINV_MAX_BITLEN
            /\ Len(v.pox_bitvec) = (v.bitlen + 7) \div 8
      [] v.id = "GetBlocksInv" -> v.num_blocks # 0
      [] v.id = "BlocksInv" ->
            /\ v.bitlen # 0
            /\ Len(v.block_bitvec) = (v.bitlen + 7) \div 8
            /\ Len(v.microblocks_bitvec) = (v.bitlen + 7) \div 8
      [] v.id \in {"BlocksAvailable", "MicroblocksAvailable"} ->
            Len(v.available) <= BLOCKS_AVAILABLE_MAX_LEN
      [] v.id = "Blocks" ->
            /\ Len(v.blocks) <= BLOCKS_PUSHED_MAX
            /\ \A i, j \in 1..Len(v.blocks) :
                  i # j => v.blocks[i][1] # v.blocks[j][1]
      [] OTHER -> TRUE

\* the whole encoding of the message sent was received and decoded
WholeMessageDecoded ==
    /\ lastOp = "decode_message"
    /\ wire = StacksMessage_consensus_serialize(sent)

ObjectSent ==
    CASE lastOp = "decode_message" -> StacksMessage_consensus_serialize(sent)
      [] lastOp = "decode_preamble" ->
            Preamble_consensus_serialize(sent.preamble)
      [] lastOp = "decode_payload" ->
            StacksMessageType_consensus_serialize(sent.payload)
      [] lastOp = "decode_relayer" ->
            RelayData_consensus_serialize(sent.relayers[1])
      [] OTHER -> <<>>

\* that object is one its decoder accepts when it is given all of it
ObjectValid ==
    CASE lastOp = "decode_message" ->
            /\ PreambleValid(sent.preamble)
            /\ Len(sent.relayers) <= MAX_RELAYERS_LEN
            /\ PayloadValid(sent.payload)
      [] lastOp = "decode_payload" -> PayloadValid(sent.payload)
      [] OTHER -> TRUE

\* the decoder was given the encoding of an object without its last byte
Truncated ==
    /\ ObjectSent # <<>>
    /\ wire = SubSeq(ObjectSent, 1, Len(ObjectSent) - 1)

\* C12: decoding the encoding of a preamble, a relayer, a payload or an
\* envelope with its last byte removed never returns a value; it fails with
\* a Read error (unexpected end of input) whenever the object is one that
\* decodes from its whole encoding, which every preamble's first
\* PREAMBLE_ENCODED_SIZE - 1 bytes and every relayer are.
C12_TruncationDetected ==
    Truncated
    => /\ ~decoded.ok
       /\ (ObjectValid \/ lastOp \in {"decode_preamble", "decode_relayer"})
             => decoded.err = "ReadError"

\* C12 as stated: a Read error for every encoded object, valid or not
C12_TruncationAlwaysRead == Truncated => (~decoded.ok /\ decoded.err = "ReadError")

\* a valid Blocks envelope one byte short ran into the end of input
C12_Witness ==
    /\ lastOp = "decode_message"
    /\ Truncated
    /\ ObjectValid
    /\ sent.payload.id = "Blocks"
    /\ sent.payload.blocks # <<>>
    /\ ~decoded.ok
    /\ decoded.err = "ReadError"

\* the tag bytes of the 19 message variants
VariantTags == {StacksMessageID(name) : name \in MessageNames}

\* C13: payload decode returns a Deserialize error for every tag byte that
\* is not the identifier of one of the 19 variants, the Reserved identifier
\* among them; the tag that encode writes is the identifier of the variant
\* encoded, never Reserved; a payload decoded is of the variant whose
\* identifier the tag is, so that the encoding of each variant decodes to
\* that variant.
C13_TagDispatch ==
    (lastOp = "decode_payload" /\ wire # <<>>)
    => /\ wire[1] \notin VariantTags
            => (~decoded.ok /\ decoded.err = "DeserializeError")
       /\ wire[1] = StacksMessageID("Reserved")
            => (~decoded.ok /\ decoded.err = "DeserializeError")
       /\ Head(StacksMessageType_consensus_serialize(sent.payload))
             = StacksMessageID(sent.payload.id)
       /\ Head(StacksMessageType_consensus_serialize(sent.payload))
             \in VariantTags \ {StacksMessageID("Reserved")}
       /\ decoded.ok => StacksMessageID(decoded.val.id) = wire[1]
       /\ (/\ wire = StacksMessageType_consensus_serialize(sent.payload)
           /\ PayloadValid(sent.payload))
             => (decoded.ok /\ decoded.val.id = sent.payload.id)

\* the Reserved tag in front of a well-formed body was refused
C13_Witness ==
    /\ lastOp = "decode_payload"
    /\ Len(wire) = 5
    /\ wire[1] = StacksMessageID("Reserved")
    /\ ~decoded.ok
    /\ decoded.err = "DeserializeError"

\* bit k (from 0, low end first within each octet) of a bit vector
BitOf(bitvec, k) == (bitvec[(k \div 8) + 1] \div (2 ^ (k % 8))) % 2 = 1

\* C14: for the inventories built of a vector bs of 1..MaxBits booleans,
\* with bitlen = |bs| and bit vector compress_bools(bs), has_ith_block(i)
\* is bs[i] for every i < |bs| (and so is has_ith_reward_cycle(i), and
\* has_ith_microblock_stream(i) is the bit packed for it), and each of
\* has_ith_block, has_ith_microblock_stream and has_ith_reward_cycle
\* returns false for every i >= bitlen.
C14_BitVectorLaw ==
    /\ (lastOp = "has_ith_block" /\ asked < Len(bools))
          => (~answer.panicked /\ answer.val = bools[asked + 1])
    /\ (lastOp = "has_ith_reward_cycle" /\ asked < Len(bools))
          => (~answer.panicked /\ answer.val = bools[asked + 1])
    /\ (lastOp = "has_ith_microblock_stream" /\ asked < Len(bools))
          => (~answer.panicked /\ answer.val = ~bools[asked + 1])
    /\ (/\ lastOp \in {"has_ith_block", "has_ith_microblock_stream",
                       "has_ith_reward_cycle"}
        /\ asked >= invs.blocks.bitlen)
          => (~answer.panicked /\ answer.val = FALSE)

\* the ninth of nine booleans, kept in the second octet, was read back
C14_Witness ==
    /\ lastOp = "has_ith_block"
    /\ Len(bools) = 9
    /\ asked = 8
    /\ bools[9]
    /\ ~bools[1]
    /\ answer.val

\* C15: compress_bools(bits) has ceil(|bits| / 8) octets, which is the
\* length BITVEC_LEN(|bits|) that the decoders require: |bits| / 8 whole
\* octets and one more exactly when |bits| % 8 # 0; bit j of octet i is
\* bits[8 * i + j], and the bits of the last octet past |bits| are zero.
C15_CompressBoolsLayout ==
    (lastOp = "compress_bools")
    => LET bitvec == invs.blocks.block_bitvec
           n      == Len(bools)
       IN  /\ Len(bitvec) = (n + 7) \div 8
           /\ Len(bitvec) = BITVEC_LEN(n)
           /\ Len(bitvec) = (n \div 8) + (IF n % 8 # 0 THEN 1 ELSE 0)
           /\ \A i \in 1..Len(bitvec) : bitvec[i] \in Byte
           /\ \A k \in 0..(8 * Len(bitvec) - 1) :
                 BitOf(bitvec, k) = (k < n /\ bools[k + 1])

\* eight booleans took one octet, with the eighth in its high bit
C15_Witness ==
    /\ lastOp = "compress_bools"
    /\ Len(bools) = 8
    /\ bools[8]
    /\ ~bools[1]
    /\ Len(invs.blocks.block_bitvec) = 1
    /\ invs.blocks.block_bitvec[1] >= 128

\* the whole encoding of the payload sent was received and decoded
WholePayloadDecoded ==
    /\ lastOp = "decode_payload"
    /\ wire = StacksMessageType_consensus_serialize(sent.payload)

\* the decoder refused the bytes with a Deserialize error
Refused == ~decoded.ok /\ decoded.err = "DeserializeError"

\* the decoder returned the payload that was encoded
Accepted == decoded.ok /\ decoded.val = sent.payload

\* C16: a BlocksInv or PoxInv decodes only when each of its bit vectors is
\* declared with exactly ceil(bitlen / 8) bytes; a block, microblock or PoX
\* bit vector that is shorter or longer than that makes the decode fail
\* with a Deserialize error.
C16_BitvecLengthExact ==
    /\ (WholePayloadDecoded /\ sent.payload.id = "BlocksInv")
          => /\ decoded.ok
                   => /\ Len(decoded.val.block_bitvec)
                            = (decoded.val.bitlen + 7) \div 8
                      /\ Len(decoded.val.microblocks_bitvec)
                            = (decoded.val.bitlen + 7) \div 8
             /\ (\/ Len(sent.payload.block_bitvec)
                       # (sent.payload.bitlen + 7) \div 8
                 \/ Len(sent.payload.microblocks_bitvec)
                       # (sent.payload.bitlen + 7) \div 8)
                   => Refused
    /\ (WholePayloadDecoded /\ sent.payload.id = "PoxInv")
          => /\ decoded.ok
                   => Len(decoded.val.pox_bitvec)
                         = (decoded.val.bitlen + 7) \div 8
             /\ Len(sent.payload.pox_bitvec) # (sent.payload.bitlen + 7) \div 8
                   => Refused

\* a BlocksInv of nine bits whose microblock vector has one byte too many
\* was refused
C16_Witness ==
    /\ WholePayloadDecoded
    /\ sent.payload.id = "BlocksInv"
    /\ sent.payload.bitlen = 9
    /\ Len(sent.payload.block_bitvec) = 2
    /\ Len(sent.payload.microblocks_bitvec) = 3
    /\ Refused

\* C17: GetPoxInv decodes exactly when 1 <= num_cycles <=
\* GETPOXINV_MAX_BITLEN, PoxInv decodes only when 1 <= bitlen <=
\* GETPOXINV_MAX_BITLEN, and the failure is a Deserialize error; encode
\* writes a value outside the range as it writes any other.
C17_PoxRange ==
    /\ (WholePayloadDecoded /\ sent.payload.id = "GetPoxInv")
          => /\ wire = <<StacksMessageID("GetPoxInv")>>
                          \o sent.payload.consensus_hash
                          \o BE(sent.payload.num_cycles, 2)
             /\ IF /\ sent.payload.num_cycles >= 1
                   /\ sent.payload.num_cycles <= GETPOXINV_MAX_BITLEN
                THEN Accepted
                ELSE Refused
    /\ (WholePayloadDecoded /\ sent.payload.id = "PoxInv")
          => /\ SubSeq(wire, 1, 3) = <<StacksMessageID("PoxInv")>>
                                        \o BE(sent.payload.bitlen, 2)
             /\ decoded.ok
                   => (/\ decoded.val.bitlen >= 1
                       /\ decoded.val.bitlen <= GETPOXINV_MAX_BITLEN)
             /\ (\/ sent.payload.bitlen < 1
                 \/ sent.payload.bitlen > GETPOXINV_MAX_BITLEN)
                   => Refused

\* a GetPoxInv for one reward cycle too many was encoded and then refused
C17_Witness ==
    /\ WholePayloadDecoded
    /\ sent.payload.id = "GetPoxInv"
    /\ sent.payload.num_cycles = GETPOXINV_MAX_BITLEN + 1
    /\ Len(wire) = 23
    /\ Refused

\* C18: decode fails with a Deserialize error when Handshake.port (of a
\* Handshake or of the handshake inside a HandshakeAccept),
\* GetBlocksInv.num_blocks or BlocksInv.bitlen is zero, and accepts every
\* non-zero value of these fields.
C18_NonZeroFields ==
    /\ (WholePayloadDecoded /\ sent.payload.id = "Handshake")
          => IF sent.payload.port = 0 THEN Refused ELSE Accepted
    /\ (WholePayloadDecoded /\ sent.payload.id = "HandshakeAccept")
          => IF sent.payload.handshake.port = 0 THEN Refused ELSE Accepted
    /\ (WholePayloadDecoded /\ sent.payload.id = "GetBlocksInv")
          => IF sent.payload.num_blocks = 0 THEN Refused ELSE Accepted
    /\ (WholePayloadDecoded /\ sent.payload.id = "BlocksInv")
          => /\ sent.payload.bitlen = 0 => Refused
             /\ (/\ sent.payload.bitlen # 0
                 /\ Len(sent.payload.block_bitvec)
                       = (sent.payload.bitlen + 7) \div 8
                 /\ Len(sent.payload.microblocks_bitvec)
                       = (sent.payload.bitlen + 7) \div 8)
                   => Accepted

\* a HandshakeAccept whose handshake has port 0 was refused
C18_Witness ==
    /\ WholePayloadDecoded
    /\ sent.payload.id = "HandshakeAccept"
    /\ sent.payload.handshake.port = 0
    /\ Refused

\* C19: Blocks decode fails with a Deserialize error whenever two entries,
\* at any positions, carry the same consensus hash; a BlocksData that a
\* decode returns has pairwise distinct consensus hashes and at most
\* BLOCKS_PUSHED_MAX entries.
C19_BlocksDistinct ==
    (WholePayloadDecoded /\ sent.payload.id = "Blocks")
    => /\ (\E i, j \in 1..Len(sent.payload.blocks) :
              i # j /\ sent.payload.blocks[i][1] = sent.payload.blocks[j][1])
             => Refused
       /\ decoded.ok
             => /\ Len(decoded.val.blocks) <= BLOCKS_PUSHED_MAX
                /\ \A i, j \in 1..Len(decoded.val.blocks) :
                      i # j => decoded.val.blocks[i][1]
                                  # decoded.val.blocks[j][1]

\* three entries of which the first and the last share a consensus hash
\* were refused
C19_Witness ==
    /\ WholePayloadDecoded
    /\ sent.payload.id = "Blocks"
    /\ Len(sent.payload.blocks) = 3
    /\ sent.payload.blocks[1][1] = sent.payload.blocks[3][1]
    /\ sent.payload.blocks[1][1] # sent.payload.blocks[2][1]
    /\ Refused

\* C20: read_preamble returns an Underflow error when the buffer is shorter
\* than PREAMBLE_ENCODED_SIZE; given PREAMBLE_ENCODED_SIZE bytes or more it
\* returns what the preamble decoder returns for the first
\* PREAMBLE_ENCODED_SIZE bytes, whatever follows them, and on success
\* reports exactly PREAMBLE_ENCODED_SIZE bytes consumed.
C20_ReadPreamblePrefix ==
    (lastOp = "read_preamble")
    => IF Len(wire) < PREAMBLE_ENCODED_SIZE
       THEN ~decoded.ok /\ decoded.err = "UnderflowError"
       ELSE LET prefix ==
                    Preamble_consensus_deserialize(
                        Preamble_consensus_serialize(sent.preamble), 0)
            IN  /\ decoded.ok = prefix.ok
                /\ decoded.ok
                      => /\ decoded.val = prefix.val
                         /\ decoded.val = sent.preamble
                         /\ decoded.pos = PREAMBLE_ENCODED_SIZE
                /\ ~decoded.ok => decoded.err = prefix.err

\* a preamble was read off the front of a longer buffer
C20_Witness ==
    /\ lastOp = "read_preamble"
    /\ Len(wire) > PREAMBLE_ENCODED_SIZE + 3
    /\ decoded.ok
    /\ decoded.val = sent.preamble
    /\ decoded.pos = PREAMBLE_ENCODED_SIZE

-----------------------------------------------------------------------------
(* AttachmentsInvRequest. *)

\* the greatest member of a non-empty set of heights
MaxOf(S) == CHOOSE m \in S : \A x \in S : x <= m

\* the key add_request files the attachment under
KeyOf(att) == <<att.page_index, att.position_in_page>>

\* the two requests agree on the four fields outside the map
SameAnchorFields(a, b) ==
    /\ a.block_height = b.block_height
    /\ a.consensus_hash = b.consensus_hash
    /\ a.block_header_hash = b.block_header_hash
    /\ a.burn_block_height = b.burn_block_height

\* C22: after any sequence of add_request calls on a request created by
\* new(), every entry retained in missing_attachments was added by an
\* attachment whose (consensus_hash, block_header_hash) equals the
\* (consensus_hash, block_header_hash) the request stores.
C22_EntriesShareStoredBlock ==
    \A k \in DOMAIN request.missing_attachments :
        addedBy[k] = BlockOf(request)

\* C23: a call of add_request returns false if and only if the map is not
\* empty and the attachment's (consensus_hash, block_header_hash) differs
\* from that of the entries already retained.
C23_RejectsExactlyOtherBlocks ==
    calls > 0 =>
        (returned = FALSE
            <=> /\ ~HashMap_is_empty(before.self.missing_attachments)
                /\ \E k \in DOMAIN before.addedBy :
                       before.addedBy[k] # BlockOf(attachment))

\* C24: once a call has been accepted, the stored block_height is the
\* greatest block_height among the accepted attachments, and an accepted
\* attachment whose block_height equals the stored block_height leaves the
\* stored block_height, consensus_hash and block_header_hash as they were.
C24_HeightIsMaxAndTiesKeepAnchor ==
    /\ accepts > 0 => request.block_height = MaxOf(heights)
    /\ (/\ calls > 0
        /\ returned
        /\ attachment.block_height = before.self.block_height)
       => /\ request.block_height = before.self.block_height
          /\ BlockOf(request) = BlockOf(before.self)

\* a second accepted attachment of the height stored, after the height
\* has risen
C24_TieAccepted ==
    /\ lastOp = "add_request"
    /\ returned
    /\ accepts >= 2
    /\ attachment.block_height = before.self.block_height
    /\ before.self.block_height > 0
    /\ Cardinality(heights) >= 2

\* C25: a call that returns false leaves block_height, consensus_hash,
\* block_header_hash, burn_block_height and the map as they were; a call
\* that returns true maps (page_index, position_in_page) to the
\* attachment's content_hash, whatever the key mapped to before, and
\* leaves every other key as it was.
C25_AddRequestFrame ==
    calls > 0 =>
        LET old == before.self.missing_attachments
            new == request.missing_attachments
            key == KeyOf(attachment)
        IN  IF returned
            THEN /\ DOMAIN new = DOMAIN old \cup {key}
                 /\ new[key] = attachment.content_hash
                 /\ \A k \in DOMAIN old \ {key} : new[k] = old[k]
            ELSE /\ SameAnchorFields(request, before.self)
                 /\ new = old

\* an accepted call overwrote the content hash of a key while the map held
\* another key
C25_Overwritten ==
    /\ lastOp = "add_request"
    /\ returned
    /\ KeyOf(attachment) \in DOMAIN before.self.missing_attachments
    /\ before.self.missing_attachments[KeyOf(attachment)]
           # attachment.content_hash
    /\ DOMAIN before.self.missing_attachments # {KeyOf(attachment)}

\* C26: two requests that agree on block_height, consensus_hash,
\* block_header_hash and burn_block_height hash identically whatever their
\* maps hold, and two requests that compare equal hash identically.
C26_HashOverAnchorFields ==
    hashed.taken =>
        /\ SameAnchorFields(request, hashed.other)
               => hashed.mine = hashed.theirs
        /\ AttachmentsInvRequest_eq(request, hashed.other)
               => hashed.mine = hashed.theirs

\* a request that has accepted attachments was hashed next to a request
\* with the same four fields and another map
C26_HashedWithOtherMap ==
    /\ hashed.taken
    /\ accepts > 0
    /\ SameAnchorFields(request, hashed.other)
    /\ request.missing_attachments # hashed.other.missing_attachments
    /\ hashed.mine = hashed.theirs

\* C27: the stored (consensus_hash, block_header_hash) changes only in the
\* first accepted call, hence at most once; every later accepted call
\* leaves it, and burn_block_height, as they were.
C27_AnchorSetOnce ==
    [][/\ BlockOf(request)' # BlockOf(request)
              => accepts = 0 /\ accepts' = 1
       /\ (accepts >= 1 /\ accepts' = accepts + 1)
              => /\ BlockOf(request)' = BlockOf(request)
                 /\ request'.burn_block_height = request.burn_block_height
      ]_vars

\* a later accepted call raised block_height of a request whose stored
\* hashes had changed
C27_LaterCallRaisedHeight ==
    /\ lastOp = "add_request"
    /\ returned
    /\ accepts >= 2
    /\ BlockOf(request) # BlockOf(AttachmentsInvRequest_new)
    /\ request.block_height > before.self.block_height

-----------------------------------------------------------------------------
(* A relay that fails. *)

-----------------------------------------------------------------------------
(* Framed reading: read_preamble, then read_payload. *)

\* the bytes that follow the preamble on the wire
AfterPreambleBytes == SubSeq(wire, PREAMBLE_ENCODED_SIZE + 1, Len(wire))

\* C21: read_payload returns an Underflow error when it is given fewer
\* than preamble.payload_len bytes.  Otherwise its result is the one it
\* returns when given the first payload_len bytes alone, so no byte beyond
\* them is read, and on success the message holds the preamble given and
\* the consumed count is at most payload_len.
C21_ReadPayloadWindow ==
    lastOp = "read_payload" =>
        IF Len(AfterPreambleBytes) < framed.payload_len
        THEN ~decoded.ok /\ decoded.err = "UnderflowError"
        ELSE /\ decoded = read_payload(framed,
                                       SubSeq(AfterPreambleBytes, 1,
                                              framed.payload_len))
             /\ decoded.ok => /\ decoded.pos <= framed.payload_len
                              /\ decoded.val.preamble = framed

\* a payload was read that ends before payload_len bytes, with bytes of
\* the next message following the window
C21_Witness ==
    /\ lastOp = "read_payload"
    /\ decoded.ok
    /\ decoded.pos < framed.payload_len
    /\ Len(AfterPreambleBytes) > framed.payload_len

\* what StacksMessage::consensus_deserialize returns on the bytes received
WholeEnvelope == StacksMessage_consensus_deserialize(wire, 0)

\* the two results are the same message, read from the same bytes
SameMessage(whole, framedRead) ==
    /\ whole.val = framedRead.val
    /\ whole.pos = PREAMBLE_ENCODED_SIZE + framedRead.pos

\* the body the whole-envelope decode read lies within the first
\* payload_len bytes after the preamble, and these bytes are all there
BodyInWindow(whole, preamble) ==
    /\ whole.pos - PREAMBLE_ENCODED_SIZE <= preamble.payload_len
    /\ preamble.payload_len <= Len(AfterPreambleBytes)

\* C30 as stated: the whole-envelope decode of the bytes succeeds exactly
\* when read_preamble followed by read_payload on the bytes after the
\* preamble succeeds, and then both return the same preamble, relayers and
\* payload.
C30_PathsAgree ==
    /\ (lastOp = "read_preamble" /\ ~decoded.ok) => ~WholeEnvelope.ok
    /\ lastOp = "read_payload"
          => /\ decoded.ok <=> WholeEnvelope.ok
             /\ decoded.ok => decoded.val = WholeEnvelope.val

\* C30: when read_preamble fails, the whole-envelope decode fails.  When
\* read_preamble succeeds with a payload_len of at most MAX_MESSAGE_LEN -
\* PREAMBLE_ENCODED_SIZE, read_payload on the bytes after the preamble
\* succeeds exactly when the whole-envelope decode succeeds and the body
\* it read lies within the first payload_len bytes after the preamble,
\* all of them present; both then return the same preamble, relayers and
\* payload.  With a greater payload_len the whole-envelope decode fails.
C30_PathsAgreeInWindow ==
    /\ (lastOp = "read_preamble" /\ ~decoded.ok) => ~WholeEnvelope.ok
    /\ lastOp = "read_payload"
          => IF MessageTooBig(framed)
             THEN ~WholeEnvelope.ok
             ELSE /\ decoded.ok <=> /\ WholeEnvelope.ok
                                    /\ BodyInWindow(WholeEnvelope, framed)
                  /\ decoded.ok => SameMessage(WholeEnvelope, decoded)

\* both paths read the same relayed message
C30_Witness ==
    /\ lastOp = "read_payload"
    /\ decoded.ok
    /\ WholeEnvelope.ok
    /\ decoded.val = WholeEnvelope.val
    /\ Len(decoded.val.relayers) = MAX_RELAYERS_LEN

-----------------------------------------------------------------------------
(* Bit queries on decoded inventories. *)

\* the bit vector the last has_ith_ call on a decoded inventory indexes
VectorAsked ==
    CASE lastOp = "decoded_has_ith_block" -> decoded.val.block_bitvec
      [] lastOp = "decoded_has_ith_microblock_stream"
             -> decoded.val.microblocks_bitvec
      [] lastOp = "decoded_has_ith_reward_cycle" -> decoded.val.pox_bitvec

\* C29: on a BlocksInvData or PoxInvData that a decode returned,
\* has_ith_block, has_ith_microblock_stream and has_ith_reward_cycle index
\* their bit vector within its bounds: an index i below bitlen has i / 8
\* below the length of the vector, and no call panics.
C29_BitQueriesInBounds ==
    lastOp \in {"decoded_has_ith_block", "decoded_has_ith_microblock_stream",
                "decoded_has_ith_reward_cycle"}
    => /\ asked < decoded.val.bitlen => asked \div 8 < Len(VectorAsked)
       /\ ~answer.panicked

\* the last bit of a decoded nine-bit inventory, in its second octet, was
\* asked for
C29_Witness ==
    /\ lastOp = "decoded_has_ith_microblock_stream"
    /\ decoded.val.bitlen = 9
    /\ asked = 8
    /\ Len(VectorAsked) = 2
    /\ ~answer.panicked

====
